---- MODULE Spec2Model ----
(***************************************************************************)
(* The wallet SDK client (packages/wallet-sdk/src/client.ts): its auth     *)
(* and key-cache guards, the queries it hands to the Requester, and the    *)
(* status-await coordinators awaitPaymentResult / waitForWalletStatus,     *)
(* run on a JavaScript event loop (one macrotask at a time, the microtask  *)
(* queue drained before the next macrotask).                               *)
(***************************************************************************)
EXTENDS Integers, Sequences, FiniteSets, TLC

VARIABLES
    authProvider,   \* LightsparkClient.authProvider
    requesterAuth,  \* the auth provider the current Requester was built with
    nodeKeyCache,   \* NodeKeyCache: the entries [nodeId, key] it holds
    now,            \* the clock, in milliseconds
    call,           \* one record per client call: operation, position, returned promise
    co,             \* one record per call: the coordinator's locals (result, subscription, timeout)
    microtasks,     \* the promise reaction jobs queued by the running macrotask
    wire,           \* the HTTP requests the Requester has sent
    unhandled,      \* rejected promises nobody attached a handler to
    activeWalletId  \* LightsparkWalletClient.activeWalletId of the legacy client ("" = undefined)

vars == <<authProvider, requesterAuth, nodeKeyCache, now, call, co, microtasks, wire, unhandled, activeWalletId>>

-----------------------------------------------------------------------------
(* Bounds of the model *)

Calls == {"c1", "c2"}
MaxPushes == 2
TickMs == 100000
SigningKeys == {"k1", "k2"}
TransportErrors == {"socket closed", "server error"}
PaymentTimeoutChoices == {200}
AwaitKeys == {"k1"}
PushedPaymentStatuses == {"PENDING", "SUCCESS", "FAILED"}

-----------------------------------------------------------------------------
(* Program constants *)

WALLET_NODE_ID_KEY == "wallet_node_id"
MsPerSec == 1000
DefaultTimeoutSecs == 60
InitializeTimeoutSecs == 300

NodeIds == {WALLET_NODE_ID_KEY}
NoSigning == ""

TransactionStatusValues == {"PENDING", "SUCCESS", "FAILED", "CANCELLED"}
WalletStatusMembers == {"DEPLOYED", "READY", "FAILED", "FUTURE_VALUE"}
WalletWireValues == {"DEPLOYED", "READY", "NEW_STATE"}

completionStatuses == {"FAILED", "CANCELLED", "SUCCESS"}
DeployedStatuses == {"DEPLOYED", "FAILED"}
ReadyStatuses == {"READY", "FAILED"}

-----------------------------------------------------------------------------
(* Errors and promises *)

NoErr == [name |-> "", msg |-> "", expected |-> {}]
Err(n, m) == [name |-> n, msg |-> m, expected |-> {}]

AuthRequired == Err("LightsparkAuthException", "You must be logged in to perform this action.")
WalletLocked == Err("LightsparkAuthException", "You must unlock the wallet before performing this action.")
PaymentNull == Err("PaymentNullError", "Unknown error")
SigningKeyMissing == Err("AuthRequiredError", "signingNodeId has no key in the cache")
TransportError(e) == Err("Error", e)

Pending == [state |-> "pending", status |-> "", err |-> NoErr]
Fulfilled(s) == [state |-> "fulfilled", status |-> s, err |-> NoErr]
Rejected(e) == [state |-> "rejected", status |-> "", err |-> e]
NotStarted == [state |-> "none", status |-> "", err |-> NoErr]

-----------------------------------------------------------------------------
(* Auth providers *)

StubAuthProvider == [kind |-> "stub", validUntil |-> 0]
AccountTokenAuthProvider == [kind |-> "account", validUntil |-> 0]
AuthProviders == {StubAuthProvider, AccountTokenAuthProvider}

\* The session-token provider: a stored token, good until validUntil.
CustomJwtAuthProvider(validUntil) == [kind |-> "jwt", validUntil |-> validUntil]
JwtIsAuthorized(p, t) == t < p.validUntil

IsAuthorized(p) ==
    CASE p.kind = "stub" -> FALSE
      [] p.kind = "account" -> TRUE
      [] p.kind = "jwt" -> JwtIsAuthorized(p, now)
      [] OTHER -> FALSE

-----------------------------------------------------------------------------
(* Key cache *)

Entry(id, key) == [nodeId |-> id, key |-> key]
EntriesFor(cache, id) == {e \in cache : e.nodeId = id}
KeysFor(cache, id) == {e.key : e \in EntriesFor(cache, id)}

HasKey(cache, id) == EntriesFor(cache, id) # {}

LoadKey_accumulates(cache, id, key) == cache \cup {Entry(id, key)}

\* loadKey replaces the entry of the node id.
LoadKey(cache, id, key) == (cache \ EntriesFor(cache, id)) \cup {Entry(id, key)}

isWalletUnlocked(cache) == HasKey(cache, WALLET_NODE_ID_KEY)

-----------------------------------------------------------------------------
(* The guards of the client's operations *)

\* requireValidAuth is an async function: it never throws into its caller,
\* it returns a promise that rejects when the provider is not authorized.
RequireValidAuthRejects(p) == ~IsAuthorized(p)

RequireWalletUnlockedThrows_never(cache) == FALSE

RequireWalletUnlockedThrows(cache) == ~isWalletUnlocked(cache)

-----------------------------------------------------------------------------
(* Initial state: a client right after construction *)

IdleCall ==
    [op |-> "", pc |-> "idle", ret |-> NotStarted, timeoutSecs |-> 0,
     handed |-> 0, authorized |-> FALSE, unlocked |-> FALSE, input |-> <<>>]

NoCoordinator ==
    [result |-> NotStarted, sub |-> "none", timer |-> "none", deadline |-> 0,
     startedAt |-> 0, statuses |-> {}, errName |-> "", known |-> "",
     pushes |-> 0, firstTerminal |-> "", latePushes |-> 0, settleCalls |-> 0, clearCalls |-> 0, unsubCalls |-> 0,
     subscribeCalls |-> 0, deliveries |-> 0, reported |-> NoErr]

Init ==
    /\ authProvider \in AuthProviders
    /\ requesterAuth = authProvider
    /\ nodeKeyCache = {}
    /\ now = 0
    /\ call = [c \in Calls |-> IdleCall]
    /\ co = [c \in Calls |-> NoCoordinator]
    /\ microtasks = <<>>
    /\ wire = {}
    /\ unhandled = {}
    /\ activeWalletId = ""

-----------------------------------------------------------------------------
(* The Requester: executeQuery hands a query to the network unless it is    *)
(* flagged for signing and the key cache holds no key for the signing node. *)

ExecuteQueryFailsFast(cache, signingNodeId) ==
    signingNodeId # NoSigning /\ ~HasKey(cache, signingNodeId)

Request(c, name, signingNodeId, cache) ==
    [call |-> c, op |-> name, signingNodeId |-> signingNodeId,
     keyHeld |-> (signingNodeId # NoSigning /\ HasKey(cache, signingNodeId)),
     signedWith |-> IF signingNodeId # NoSigning THEN KeysFor(cache, signingNodeId) ELSE {},
     authorized |-> IsAuthorized(requesterAuth)]

\* Every macrotask starts with an empty microtask queue.
MacroTask == microtasks = <<>>

\* The synchronous part of a client operation, up to its first await on the
\* network: the guards in the order the code runs them, then executeRawQuery.
\* `this.requireValidAuth();` is written without await: the promise it returns
\* is dropped, a rejection of it is nobody's, and the operation goes on.
Invoke(c, name, secs, validAuth, walletUnlocked, signingNodeId, cacheAfter) ==
    /\ MacroTask
    /\ call[c].pc = "idle"
    /\ unhandled' =
         IF validAuth /\ RequireValidAuthRejects(authProvider)
         THEN unhandled \cup {[call |-> c, src |-> "requireValidAuth", err |-> AuthRequired]}
         ELSE unhandled
    /\ LET started == [call[c] EXCEPT !.op = name, !.timeoutSecs = secs,
                                       !.authorized = IsAuthorized(authProvider),
                                       !.unlocked = isWalletUnlocked(nodeKeyCache)]
       IN  IF walletUnlocked /\ RequireWalletUnlockedThrows(nodeKeyCache)
           THEN /\ call' = [call EXCEPT ![c] = [started EXCEPT !.pc = "done", !.ret = Rejected(WalletLocked)]]
                /\ UNCHANGED <<nodeKeyCache, wire>>
           ELSE /\ nodeKeyCache' = cacheAfter
                /\ IF ExecuteQueryFailsFast(cacheAfter, signingNodeId)
                   THEN /\ call' = [call EXCEPT ![c] = [started EXCEPT !.pc = "done", !.handed = @ + 1,
                                                                        !.ret = Rejected(SigningKeyMissing)]]
                        /\ UNCHANGED wire
                   ELSE /\ call' = [call EXCEPT ![c] = [started EXCEPT !.pc = "inflight", !.handed = @ + 1]]
                        /\ wire' = wire \cup {Request(c, name, signingNodeId, cacheAfter)}
    /\ UNCHANGED <<authProvider, requesterAuth, now, co, microtasks, activeWalletId>>

-----------------------------------------------------------------------------
(* The client's operations *)

deployWallet(c) ==
    Invoke(c, "deployWallet", 0, TRUE, FALSE, NoSigning, nodeKeyCache)

deployWalletAndAwaitDeployed(c) ==
    Invoke(c, "deployWalletAndAwaitDeployed", DefaultTimeoutSecs, TRUE, FALSE, NoSigning, nodeKeyCache)

initializeWallet_withoutLoading(c, key) ==
    Invoke(c, "initializeWallet", 0, TRUE, FALSE, WALLET_NODE_ID_KEY, nodeKeyCache)

initializeWallet(c, key) ==
    Invoke(c, "initializeWallet", 0, TRUE, FALSE, WALLET_NODE_ID_KEY,
           LoadKey(nodeKeyCache, WALLET_NODE_ID_KEY, key))

initializeWalletAndAwaitReady(c, key) ==
    Invoke(c, "initializeWalletAndAwaitReady", InitializeTimeoutSecs, TRUE, FALSE, WALLET_NODE_ID_KEY,
           LoadKey(nodeKeyCache, WALLET_NODE_ID_KEY, key))

terminateWallet(c) ==
    Invoke(c, "terminateWallet", 0, TRUE, FALSE, NoSigning, nodeKeyCache)

getWalletDashboard(c) ==
    Invoke(c, "getWalletDashboard", 0, TRUE, FALSE, NoSigning, nodeKeyCache)

createInvoice(c) ==
    Invoke(c, "createInvoice", 0, TRUE, FALSE, NoSigning, nodeKeyCache)

payInvoice(c) ==
    Invoke(c, "payInvoice", DefaultTimeoutSecs, TRUE, TRUE, WALLET_NODE_ID_KEY, nodeKeyCache)

payInvoiceAndAwaitResult(c, timoutSecs) ==
    Invoke(c, "payInvoiceAndAwaitResult", timoutSecs, TRUE, TRUE, WALLET_NODE_ID_KEY, nodeKeyCache)

sendPayment(c) ==
    Invoke(c, "sendPayment", DefaultTimeoutSecs, TRUE, TRUE, WALLET_NODE_ID_KEY, nodeKeyCache)

sendPaymentAndAwaitResult(c, timeoutSecs) ==
    Invoke(c, "sendPaymentAndAwaitResult", timeoutSecs, TRUE, TRUE, WALLET_NODE_ID_KEY, nodeKeyCache)

decodeInvoice(c) ==
    Invoke(c, "decodeInvoice", 0, FALSE, FALSE, NoSigning, nodeKeyCache)

getBitcoinFeeEstimate(c) ==
    Invoke(c, "getBitcoinFeeEstimate", 0, FALSE, FALSE, NoSigning, nodeKeyCache)

getLightningFeeEstimateForInvoice(c) ==
    Invoke(c, "getLightningFeeEstimateForInvoice", 0, TRUE, FALSE, NoSigning, nodeKeyCache)

getLightningFeeEstimateForNode(c) ==
    Invoke(c, "getLightningFeeEstimateForNode", 0, TRUE, FALSE, NoSigning, nodeKeyCache)

createBitcoinFundingAddress(c) ==
    Invoke(c, "createBitcoinFundingAddress", 0, TRUE, TRUE, WALLET_NODE_ID_KEY, nodeKeyCache)

getCurrentWallet(c) ==
    Invoke(c, "getCurrentWallet", 0, TRUE, FALSE, NoSigning, nodeKeyCache)

requestWithdrawal(c) ==
    Invoke(c, "requestWithdrawal", 0, TRUE, TRUE, WALLET_NODE_ID_KEY, nodeKeyCache)

loadWalletSigningKey_underKeyId(key) ==
    /\ MacroTask
    /\ nodeKeyCache' = LoadKey(nodeKeyCache, key, key)
    /\ nodeKeyCache' # nodeKeyCache
    /\ UNCHANGED <<authProvider, requesterAuth, now, call, co, microtasks, wire, unhandled, activeWalletId>>

loadWalletSigningKey(key) ==
    /\ MacroTask
    /\ nodeKeyCache' = LoadKey(nodeKeyCache, WALLET_NODE_ID_KEY, key)
    /\ nodeKeyCache' # nodeKeyCache
    /\ UNCHANGED <<authProvider, requesterAuth, now, call, co, microtasks, wire, unhandled, activeWalletId>>

setAuthProvider_keepsRequester(p) ==
    /\ MacroTask
    /\ p # authProvider
    /\ authProvider' = p
    /\ UNCHANGED <<requesterAuth, nodeKeyCache, now, call, co, microtasks, wire, unhandled, activeWalletId>>

setAuthProvider_freshCache(p) ==
    /\ MacroTask
    /\ p # authProvider
    /\ requesterAuth' = p
    /\ authProvider' = p
    /\ nodeKeyCache' = {}
    /\ UNCHANGED <<now, call, co, microtasks, wire, unhandled, activeWalletId>>

\* setAuthProvider builds a new Requester on this.nodeKeyCache and the given
\* provider, then assigns this.authProvider.
setAuthProvider(p) ==
    /\ MacroTask
    /\ p # authProvider
    /\ requesterAuth' = p
    /\ authProvider' = p
    /\ UNCHANGED <<nodeKeyCache, now, call, co, microtasks, wire, unhandled, activeWalletId>>

-----------------------------------------------------------------------------
(* The network's answer to a query, and what the operation makes of it *)

QueryErrors == {"NetworkError", "GraphQLError"}
PlainResponses == QueryErrors \cup {"null", "object"}
WalletResponses == QueryErrors \cup {"null"} \cup WalletStatusMembers
PaymentResponses == QueryErrors \cup {"null"} \cup TransactionStatusValues

PaymentOps == {"payInvoice", "sendPayment"}
RawRequestOps == {"getBitcoinFeeEstimate", "getLightningFeeEstimateForInvoice",
                  "getLightningFeeEstimateForNode"}
AwaitWalletOps == {"deployWalletAndAwaitDeployed", "initializeWalletAndAwaitReady"}
AwaitPaymentOps == {"payInvoiceAndAwaitResult", "sendPaymentAndAwaitResult"}
AwaitOps == AwaitWalletOps \cup AwaitPaymentOps

PaymentResult_nullPassedOn(r) ==
    IF r \in QueryErrors THEN Rejected(Err(r, ""))
    ELSE Fulfilled(r)

\* payInvoice / sendPayment: executeRawQuery's result, null turned into PaymentNullError.
PaymentResult(r) ==
    IF r \in QueryErrors THEN Rejected(Err(r, ""))
    ELSE IF r = "null" THEN Rejected(PaymentNull)
    ELSE Fulfilled(r)

OperationResult(name, r) ==
    IF r \in QueryErrors THEN Rejected(Err(r, ""))
    ELSE IF name \in PaymentOps THEN PaymentResult(r)
    ELSE IF name \in RawRequestOps /\ r = "null" THEN Rejected(Err("TypeError", ""))
    ELSE Fulfilled(r)

executeRawQueryReturns_retries(c, r) ==
    /\ MacroTask
    /\ call[c].pc = "inflight"
    /\ call[c].op \notin AwaitOps \cup {"loginWithJWT"}
    /\ call' = [call EXCEPT ![c] = IF r \in QueryErrors /\ @.handed < 2
                                   THEN [@ EXCEPT !.handed = @ + 1]
                                   ELSE [@ EXCEPT !.pc = "done", !.ret = OperationResult(call[c].op, r)]]
    /\ UNCHANGED <<authProvider, requesterAuth, nodeKeyCache, now, co, microtasks, wire, unhandled, activeWalletId>>

\* A query of an operation that does not await a status returns.
executeRawQueryReturns(c, r) ==
    /\ MacroTask
    /\ call[c].pc = "inflight"
    /\ call[c].op \notin AwaitOps \cup {"loginWithJWT"}
    /\ call' = [call EXCEPT ![c] = [@ EXCEPT !.pc = "done", !.ret = OperationResult(call[c].op, r)]]
    /\ UNCHANGED <<authProvider, requesterAuth, nodeKeyCache, now, co, microtasks, wire, unhandled, activeWalletId>>

-----------------------------------------------------------------------------
(* The status-await coordinator *)

Job(c, j) == [call |-> c, job |-> j]

TimerDelay_inSeconds(timeoutSecs) == timeoutSecs

TimerDelay(timeoutSecs) == timeoutSecs * MsPerSec

TimeoutError(k) ==
    [name |-> k.errName, msg |-> "Timed out waiting", expected |-> k.statuses]
CompletedError(k) ==
    [name |-> k.errName, msg |-> "subscription completed without a status update", expected |-> {}]

\* resolve / reject of `result`: only the first call settles the promise.
resolve(k, s) ==
    [k EXCEPT !.settleCalls = @ + 1,
              !.result = IF @.state = "pending" THEN Fulfilled(s) ELSE @]
reject(k, e) ==
    [k EXCEPT !.settleCalls = @ + 1,
              !.result = IF @.state = "pending" THEN Rejected(e) ELSE @]

next_anyStatus(k, status) == resolve(k, status)
next_successOnly(k, status) == IF status \in k.statuses \ {"FAILED"} THEN resolve(k, status) ELSE k
error_wrapped(k, e) == reject(k, Err("LightsparkException", e.msg))
complete_swallowed(k) == k

\* The observer handed to subscribe, and the timeout callback.
next(k, status) == IF status \in k.statuses THEN resolve(k, status) ELSE k
error(k, e) == reject(k, e)
complete(k) == reject(k, CompletedError(k))
onTimeout_swallowed(k) == k
onTimeout(k) == reject(k, TimeoutError(k))

\* The promise executor: subscribe, then start the timer.
Subscribe(k, statuses, timeoutSecs, errName, t) ==
    [k EXCEPT !.result = Pending, !.sub = "live", !.subscribeCalls = @ + 1,
              !.timer = "armed", !.deadline = t + TimerDelay(timeoutSecs), !.startedAt = t,
              !.statuses = statuses, !.errName = errName]

waitForWalletStatus(k, statuses, timeoutSecs, t) ==
    Subscribe(k, statuses, timeoutSecs, "WalletStatusAwaitError", t)

awaitPaymentResult_alwaysSubscribes(k, status, timeoutSecs, t) ==
    Subscribe(k, completionStatuses, timeoutSecs, "PaymentStatusAwaitError", t)

awaitPaymentResult(k, status, timeoutSecs, t) ==
    IF status \in completionStatuses
    THEN [k EXCEPT !.result = Fulfilled(status), !.statuses = completionStatuses]
    ELSE Subscribe(k, completionStatuses, timeoutSecs, "PaymentStatusAwaitError", t)

finally_keepsTimer(k) ==
    [k EXCEPT !.unsubCalls = @ + 1, !.sub = IF @ = "live" THEN "unsubscribed" ELSE @]
finally_keepsSubscription(k) ==
    [k EXCEPT !.clearCalls = @ + 1, !.timer = IF @ = "armed" THEN "cleared" ELSE @]

\* result.finally(...): clearTimeout and unsubscribe, whatever is left of them.
finally(k) ==
    [k EXCEPT !.clearCalls = @ + 1, !.timer = IF @ = "armed" THEN "cleared" ELSE @,
              !.unsubCalls = @ + 1, !.sub = IF @ = "live" THEN "unsubscribed" ELSE @]

\* The reactions a settlement of `result` queues, in the order they were
\* attached: the coordinator's finally, then the caller's await.
Reactions(c, before, after) ==
    IF before.result.state = "pending" /\ after.result.state # "pending"
    THEN <<Job(c, "finally"), Job(c, "deliver")>>
    ELSE <<>>

-----------------------------------------------------------------------------
(* The operations that await a status: what they do when their mutation    *)
(* returns.                                                                *)

\* History: the status the mutation returned, the state known when the await
\* starts, recorded when it is one of the awaited statuses.
Known(k, r, awaited) == [k EXCEPT !.known = IF r \in awaited THEN r ELSE ""]

\* wallet?.status === DEPLOYED || wallet?.status === FAILED, and the same for READY.
AlreadyDeployed_orReady(status) == status = "DEPLOYED" \/ status = "FAILED" \/ status = "READY"
AlreadyDeployed(status) == status = "DEPLOYED" \/ status = "FAILED"
AlreadyReady(status) == status = "READY" \/ status = "FAILED"

\* The call goes on waiting on the coordinator's promise k.result.
AwaitResult(c, k) ==
    /\ call' = [call EXCEPT ![c] = [@ EXCEPT !.pc = "waiting"]]
    /\ co' = [co EXCEPT ![c] = k]
    /\ microtasks' = IF k.result.state = "pending" THEN <<>> ELSE <<Job(c, "deliver")>>

Return(c, promise) ==
    /\ call' = [call EXCEPT ![c] = [@ EXCEPT !.pc = "done", !.ret = promise]]
    /\ UNCHANGED microtasks

deployWalletAndAwaitDeployedResumes(c, r) ==
    /\ MacroTask
    /\ call[c].pc = "inflight"
    /\ call[c].op = "deployWalletAndAwaitDeployed"
    /\ IF r \in QueryErrors
       THEN Return(c, Rejected(Err(r, ""))) /\ UNCHANGED co
       ELSE IF AlreadyDeployed(r)
       THEN Return(c, Fulfilled(r)) /\ co' = [co EXCEPT ![c] = Known(@, r, DeployedStatuses)]
       ELSE AwaitResult(c, waitForWalletStatus(Known(co[c], r, DeployedStatuses), DeployedStatuses,
                                               DefaultTimeoutSecs, now))
    /\ UNCHANGED <<authProvider, requesterAuth, nodeKeyCache, now, wire, unhandled, activeWalletId>>

initializeWalletAndAwaitReadyResumes(c, r) ==
    /\ MacroTask
    /\ call[c].pc = "inflight"
    /\ call[c].op = "initializeWalletAndAwaitReady"
    /\ IF r \in QueryErrors
       THEN Return(c, Rejected(Err(r, ""))) /\ UNCHANGED co
       ELSE IF AlreadyReady(r)
       THEN Return(c, Fulfilled(r)) /\ co' = [co EXCEPT ![c] = Known(@, r, ReadyStatuses)]
       ELSE AwaitResult(c, waitForWalletStatus(Known(co[c], r, ReadyStatuses), ReadyStatuses,
                                               InitializeTimeoutSecs, now))
    /\ UNCHANGED <<authProvider, requesterAuth, nodeKeyCache, now, wire, unhandled, activeWalletId>>

\* payInvoiceAndAwaitResult and sendPaymentAndAwaitResult: the same two lines.
PaymentAndAwaitResultResumes(c, name, r) ==
    /\ MacroTask
    /\ call[c].pc = "inflight"
    /\ call[c].op = name
    /\ IF PaymentResult(r).state = "rejected"
       THEN Return(c, PaymentResult(r)) /\ UNCHANGED co
       ELSE AwaitResult(c, awaitPaymentResult(Known(co[c], r, completionStatuses), r,
                                              call[c].timeoutSecs, now))
    /\ UNCHANGED <<authProvider, requesterAuth, nodeKeyCache, now, wire, unhandled, activeWalletId>>

payInvoiceAndAwaitResultResumes(c, r) ==
    PaymentAndAwaitResultResumes(c, "payInvoiceAndAwaitResult", r)

sendPaymentAndAwaitResultResumes(c, r) ==
    PaymentAndAwaitResultResumes(c, "sendPaymentAndAwaitResult", r)

-----------------------------------------------------------------------------
(* The events of a coordinator: each is one macrotask *)

\* listenToWalletStatus maps the pushed JSON to a WalletStatus.
WalletStatusFromWire(w) == IF w \in WalletStatusMembers THEN w ELSE "FUTURE_VALUE"

\* The subscription delivers a push to the observer k.next.
Deliverable(c) == co[c].sub = "live" /\ co[c].pushes < MaxPushes

\* What the subscription has delivered so far: the number of pushes, the first
\* pushed status of the awaited set, and the pushes delivered after that one.
Pushed(k, status) ==
    [k EXCEPT !.pushes = @ + 1,
              !.firstTerminal = IF @ = "" /\ status \in k.statuses THEN status ELSE @,
              !.latePushes = IF k.firstTerminal # "" THEN @ + 1 ELSE @]

Observe(c, k) ==
    /\ co' = [co EXCEPT ![c] = k]
    /\ microtasks' = Reactions(c, co[c], k)
    /\ UNCHANGED <<authProvider, requesterAuth, nodeKeyCache, now, call, wire, unhandled, activeWalletId>>

PushWalletStatus(c, w) ==
    /\ MacroTask
    /\ call[c].op \in AwaitWalletOps
    /\ Deliverable(c)
    /\ LET status == WalletStatusFromWire(w)
       IN  Observe(c, next(Pushed(co[c], status), status))

PushPaymentStatus(c, status) ==
    /\ MacroTask
    /\ call[c].op \in AwaitPaymentOps
    /\ Deliverable(c)
    /\ Observe(c, next(Pushed(co[c], status), status))

SubscriptionError(c, e) ==
    /\ MacroTask
    /\ co[c].sub = "live"
    /\ Observe(c, error([co[c] EXCEPT !.sub = "errored", !.reported = TransportError(e)],
                         TransportError(e)))

SubscriptionComplete(c) ==
    /\ MacroTask
    /\ co[c].sub = "live"
    /\ Observe(c, complete([co[c] EXCEPT !.sub = "completed"]))

\* setTimeout: the callback runs once, not before its delay has elapsed.
TimerFires(c) ==
    /\ MacroTask
    /\ co[c].timer = "armed"
    /\ now >= co[c].deadline
    /\ Observe(c, onTimeout([co[c] EXCEPT !.timer = "fired"]))

\* Time passes while some timer is still to come.
Tick ==
    /\ MacroTask
    /\ \E c \in Calls : co[c].timer = "armed" /\ now < co[c].deadline
    /\ now' = now + TickMs
    /\ UNCHANGED <<authProvider, requesterAuth, nodeKeyCache, call, co, microtasks, wire, unhandled, activeWalletId>>

-----------------------------------------------------------------------------
(* The microtasks: promise reactions, run in queue order before any other   *)
(* macrotask.                                                               *)

RunFinally_clearsEveryCoordinator(c) ==
    /\ microtasks # <<>>
    /\ Head(microtasks) = Job(c, "finally")
    /\ microtasks' = Tail(microtasks)
    /\ co' = [d \in Calls |-> IF d = c \/ co[d].sub = "live" THEN finally(co[d]) ELSE co[d]]
    /\ unhandled' =
         IF co[c].result.state = "rejected"
         THEN unhandled \cup {[call |-> c, src |-> "finally", err |-> co[c].result.err]}
         ELSE unhandled
    /\ UNCHANGED <<authProvider, requesterAuth, nodeKeyCache, now, call, wire, activeWalletId>>

\* The reaction result.finally attached. The promise finally returns settles
\* like `result`; the code attaches nothing to it.
RunFinally(c) ==
    /\ microtasks # <<>>
    /\ Head(microtasks) = Job(c, "finally")
    /\ microtasks' = Tail(microtasks)
    /\ co' = [co EXCEPT ![c] = finally(@)]
    /\ unhandled' =
         IF co[c].result.state = "rejected"
         THEN unhandled \cup {[call |-> c, src |-> "finally", err |-> co[c].result.err]}
         ELSE unhandled
    /\ UNCHANGED <<authProvider, requesterAuth, nodeKeyCache, now, call, wire, activeWalletId>>

\* The caller's `return await` on the coordinator's promise.
Deliver(c) ==
    /\ microtasks # <<>>
    /\ Head(microtasks) = Job(c, "deliver")
    /\ microtasks' = Tail(microtasks)
    /\ call' = [call EXCEPT ![c] = [@ EXCEPT !.pc = "done", !.ret = co[c].result]]
    /\ co' = [co EXCEPT ![c] = [@ EXCEPT !.deliveries = @ + 1]]
    /\ UNCHANGED <<authProvider, requesterAuth, nodeKeyCache, now, wire, unhandled, activeWalletId>>

-----------------------------------------------------------------------------
(* Specifications *)

Next ==
    \/ \E c \in Calls : deployWalletAndAwaitDeployed(c)
    \/ \E c \in Calls, key \in AwaitKeys : initializeWalletAndAwaitReady(c, key)
    \/ \E c \in Calls, secs \in PaymentTimeoutChoices : payInvoiceAndAwaitResult(c, secs)
    \/ \E c \in Calls, secs \in PaymentTimeoutChoices : sendPaymentAndAwaitResult(c, secs)
    \/ \E key \in AwaitKeys : loadWalletSigningKey(key)
    \/ \E c \in Calls, r \in WalletResponses : deployWalletAndAwaitDeployedResumes(c, r)
    \/ \E c \in Calls, r \in WalletResponses : initializeWalletAndAwaitReadyResumes(c, r)
    \/ \E c \in Calls, r \in PaymentResponses : payInvoiceAndAwaitResultResumes(c, r)
    \/ \E c \in Calls, r \in PaymentResponses : sendPaymentAndAwaitResultResumes(c, r)
    \/ \E c \in Calls, w \in WalletWireValues : PushWalletStatus(c, w)
    \/ \E c \in Calls, s \in PushedPaymentStatuses : PushPaymentStatus(c, s)
    \/ \E c \in Calls, e \in TransportErrors : SubscriptionError(c, e)
    \/ \E c \in Calls : SubscriptionComplete(c)
    \/ \E c \in Calls : TimerFires(c)
    \/ Tick
    \/ \E c \in Calls : RunFinally(c)
    \/ \E c \in Calls : Deliver(c)

Spec == Init /\ [][Next]_vars

ClientNext ==
    \/ \E c \in Calls : deployWallet(c)
    \/ \E c \in Calls, key \in SigningKeys : initializeWallet(c, key)
    \/ \E c \in Calls : terminateWallet(c)
    \/ \E c \in Calls : getWalletDashboard(c)
    \/ \E c \in Calls : createInvoice(c)
    \/ \E c \in Calls : payInvoice(c)
    \/ \E c \in Calls : sendPayment(c)
    \/ \E c \in Calls : decodeInvoice(c)
    \/ \E c \in Calls : getBitcoinFeeEstimate(c)
    \/ \E c \in Calls : getLightningFeeEstimateForInvoice(c)
    \/ \E c \in Calls : getLightningFeeEstimateForNode(c)
    \/ \E c \in Calls : createBitcoinFundingAddress(c)
    \/ \E c \in Calls : getCurrentWallet(c)
    \/ \E c \in Calls : requestWithdrawal(c)
    \/ \E key \in SigningKeys : loadWalletSigningKey(key)
    \/ \E p \in AuthProviders : setAuthProvider(p)
    \/ \E c \in Calls, r \in PlainResponses : executeRawQueryReturns(c, r)

SpecClient == Init /\ [][ClientNext]_vars

-----------------------------------------------------------------------------
(* Properties of the status-await coordinators *)

Subscribed(c) == co[c].subscribeCalls > 0
Settled(c) == co[c].result.state \in {"fulfilled", "rejected"}
Done(c) == call[c].pc = "done"

TransportErrorObjects == {TransportError(e) : e \in TransportErrors}

\* Which of the four outcomes the coordinator's promise holds.
OutcomeKind(k) ==
    IF k.result.state = "fulfilled" THEN "RESOLVED"
    ELSE IF k.result.state # "rejected" THEN "WAITING"
    ELSE IF k.result.err = TimeoutError(k) THEN "TIMED_OUT"
    ELSE IF k.result.err = CompletedError(k) THEN "SUBSCRIPTION_COMPLETED_WITHOUT_TERMINAL"
    ELSE IF k.result.err = k.reported /\ k.reported # NoErr THEN "SUBSCRIPTION_ERROR"
    ELSE "OTHER"

\* The events that have happened to the coordinator, named by the outcome each leads to.
Events(k) ==
    (IF k.firstTerminal # "" THEN {"RESOLVED"} ELSE {})
    \cup (IF k.timer = "fired" THEN {"TIMED_OUT"} ELSE {})
    \cup (IF k.sub = "errored" THEN {"SUBSCRIPTION_ERROR"} ELSE {})
    \cup (IF k.sub = "completed" THEN {"SUBSCRIPTION_COMPLETED_WITHOUT_TERMINAL"} ELSE {})

C1_OneOutcome(c) ==
    LET k == co[c] IN
    Subscribed(c) =>
        /\ OutcomeKind(k) # "OTHER"
        /\ Settled(c) => Events(k) = {OutcomeKind(k)}
        /\ ~Settled(c) => Events(k) = {}
        /\ k.result.state = "fulfilled" => k.result.status \in k.statuses
        /\ k.settleCalls <= 1
        /\ k.deliveries <= 1
        /\ Done(c) <=> k.deliveries = 1
        /\ Done(c) => Settled(c) /\ call[c].ret = k.result

C1_Stable(c) ==
    Settled(c) => /\ co'[c].result = co[c].result
                  /\ Done(c) => call'[c] = call[c]

C2_CleanupExactlyOnce ==
    \A c \in Calls :
        LET k == co[c] IN
        /\ k.clearCalls <= 1 /\ k.unsubCalls <= 1
        /\ ~Subscribed(c) => k.timer = "none" /\ k.sub = "none" /\ k.clearCalls = 0 /\ k.unsubCalls = 0
        /\ Subscribed(c) /\ ~Settled(c) =>
              k.clearCalls = 0 /\ k.unsubCalls = 0 /\ k.timer = "armed" /\ k.sub = "live"
        /\ Subscribed(c) /\ Settled(c) /\ (microtasks = <<>> \/ Done(c)) =>
              k.clearCalls = 1 /\ k.unsubCalls = 1 /\ k.timer # "armed" /\ k.sub # "live"

C2_Witness ==
    \E c, d \in Calls :
        /\ Done(c) /\ OutcomeKind(co[c]) = "RESOLVED" /\ co[c].unsubCalls = 1 /\ co[c].clearCalls = 1
        /\ Done(d) /\ OutcomeKind(co[d]) = "SUBSCRIPTION_COMPLETED_WITHOUT_TERMINAL"
        /\ co[d].unsubCalls = 1 /\ co[d].clearCalls = 1

\* C3: when the status the mutation returned is already one of the awaited
\* statuses, the operation resolves with it: subscribe is never invoked, no
\* timer is started, and the caller receives exactly that status.
C3_KnownTerminalResolvesWithoutSubscribing ==
    \A c \in Calls :
        co[c].known # "" =>
            /\ co[c].subscribeCalls = 0
            /\ co[c].sub = "none" /\ co[c].timer = "none"
            /\ co[c].settleCalls = 0
            /\ call[c].pc \in {"waiting", "done"}
            /\ call[c].pc = "waiting" => microtasks = <<Job(c, "deliver")>>
            /\ Done(c) => call[c].ret = Fulfilled(co[c].known)

C3_Witness ==
    \E c, d \in Calls :
        /\ call[c].op = "payInvoiceAndAwaitResult" /\ co[c].known = "SUCCESS"
        /\ Done(c) /\ call[c].ret = Fulfilled("SUCCESS") /\ co[c].subscribeCalls = 0
        /\ call[d].op = "initializeWalletAndAwaitReady" /\ co[d].known = "READY"
        /\ Done(d) /\ call[d].ret = Fulfilled("READY") /\ co[d].subscribeCalls = 0

\* A subscription that has delivered no awaited status and has neither errored
\* nor completed.
Silent(k) == k.firstTerminal = "" /\ k.sub \notin {"errored", "completed"}

\* C4: a coordinator whose subscription stays silent settles only by its
\* timer: it rejects with the timeout error, not before timeoutSecs seconds
\* have passed since it subscribed, and unsubscribes exactly once.
C4_SilentSubscriptionTimesOut ==
    \A c \in Calls :
        LET k == co[c] IN
        Subscribed(c) /\ Silent(k) /\ Settled(c) =>
            /\ k.result = Rejected(TimeoutError(k))
            /\ now >= k.startedAt + call[c].timeoutSecs * MsPerSec
            /\ k.unsubCalls <= 1
            /\ (microtasks = <<>> \/ Done(c)) => k.unsubCalls = 1 /\ k.sub = "unsubscribed"

C4_Witness ==
    \E c \in Calls :
        /\ call[c].op = "payInvoiceAndAwaitResult" /\ Subscribed(c) /\ Silent(co[c])
        /\ co[c].pushes > 0
        /\ Done(c) /\ call[c].ret = Rejected(TimeoutError(co[c]))
        /\ co[c].unsubCalls = 1
        /\ now >= co[c].startedAt + call[c].timeoutSecs * MsPerSec

AwaitErrorName(name) ==
    IF name \in AwaitPaymentOps THEN "PaymentStatusAwaitError" ELSE "WalletStatusAwaitError"

\* C9: when the subscription completes before any awaited status was pushed,
\* the coordinator rejects with the await error of its kind
\* (PaymentStatusAwaitError / WalletStatusAwaitError): it neither resolves nor
\* stays pending.
C9_CompletionWithoutTerminalRejects ==
    \A c \in Calls :
        LET k == co[c] IN
        Subscribed(c) /\ k.sub = "completed" =>
            /\ k.firstTerminal = ""
            /\ k.result.state = "rejected"
            /\ k.result.err.name = AwaitErrorName(call[c].op)
            /\ k.result.err = CompletedError(k)
            /\ Done(c) => call[c].ret = k.result

C9_Witness ==
    \E c, d \in Calls :
        /\ call[c].op = "initializeWalletAndAwaitReady" /\ co[c].sub = "completed" /\ co[c].pushes > 0
        /\ Done(c) /\ call[c].ret.err.name = "WalletStatusAwaitError"
        /\ call[d].op = "payInvoiceAndAwaitResult" /\ co[d].sub = "completed"
        /\ Done(d) /\ call[d].ret.err.name = "PaymentStatusAwaitError"

C10_PropagatedAsIs(c) ==
    LET k == co[c] IN
    Subscribed(c) /\ k.sub = "errored" =>
        /\ k.firstTerminal = ""
        /\ k.reported \in TransportErrorObjects
        /\ k.result = Rejected(k.reported)
        /\ Done(c) => call[c].ret = Rejected(k.reported)

C10_OnlyThatCoordinator(c) ==
    co[c].sub = "live" /\ co'[c].sub = "errored" =>
        \A d \in Calls \ {c} : co'[d] = co[d] /\ call'[d] = call[d]

\* C10: when the subscription reports an error before any awaited status was
\* pushed, the coordinator rejects with exactly the reported error object, and
\* the step that reports it changes nothing of any other call or coordinator.
C10_SubscriptionErrorPropagatesAsIs ==
    /\ [](\A c \in Calls : C10_PropagatedAsIs(c))
    /\ [][\A c \in Calls : C10_OnlyThatCoordinator(c)]_vars

C10_Witness ==
    \E c, d \in Calls :
        /\ co[c].sub = "errored" /\ Done(c)
        /\ call[c].ret = Rejected(TransportError("server error"))
        /\ Subscribed(d) /\ co[d].result = Pending /\ co[d].sub = "live" /\ co[d].timer = "armed"

-----------------------------------------------------------------------------
(* Properties of the client's guards *)

AuthRequiredOps ==
    {"deployWallet", "initializeWallet", "terminateWallet", "getWalletDashboard",
     "createInvoice", "payInvoice", "sendPayment", "getCurrentWallet", "requestWithdrawal",
     "createBitcoinFundingAddress", "getLightningFeeEstimateForInvoice",
     "getLightningFeeEstimateForNode"}

UnlockRequiredOps ==
    {"payInvoice", "sendPayment", "createBitcoinFundingAddress", "requestWithdrawal"}

SentFor(c) == {q \in wire : q.call = c}

\* C7: with the stub auth provider isAuthorized() is false, and an operation
\* that requires valid auth, called while the provider is not authorized, fails
\* with the auth-required error without its query being handed to the
\* Requester and without anything being sent.
C7_UnauthorizedOperationsFailClosed ==
    /\ ~IsAuthorized(StubAuthProvider)
    /\ \A c \in Calls :
          call[c].op \in AuthRequiredOps /\ ~call[c].authorized =>
              /\ call[c].handed = 0
              /\ SentFor(c) = {}
              /\ call[c].ret.state = "rejected"
              /\ call[c].ret.err.name = "LightsparkAuthException"

\* C8: every request sent with a signingNodeId was sent while the key cache
\* held a key for that id, and still holds one; payInvoice, sendPayment,
\* createBitcoinFundingAddress and requestWithdrawal, called while the wallet is
\* not unlocked, fail with the auth exception before their query is handed to
\* the Requester, so nothing is built or sent for them.
C8_SignedRequestsNeedLoadedKey ==
    /\ \A q \in wire :
          q.signingNodeId # NoSigning => q.keyHeld /\ HasKey(nodeKeyCache, q.signingNodeId)
    /\ \A c \in Calls :
          call[c].op \in UnlockRequiredOps /\ ~call[c].unlocked =>
              /\ Done(c)
              /\ call[c].ret = Rejected(WalletLocked)
              /\ call[c].ret.err.name = "LightsparkAuthException"
              /\ call[c].handed = 0
              /\ SentFor(c) = {}

C8_Witness ==
    \E c, d \in Calls :
        /\ call[c].op = "payInvoice" /\ ~call[c].unlocked
        /\ Done(c) /\ call[c].ret = Rejected(WalletLocked) /\ SentFor(c) = {}
        /\ call[d].op = "requestWithdrawal" /\ call[d].unlocked /\ call[d].pc = "inflight"
        /\ \E q \in SentFor(d) : q.signingNodeId = WALLET_NODE_ID_KEY /\ q.keyHeld

-----------------------------------------------------------------------------
(* Error kinds of the coordinator *)

\* The kind of an error is what a caller can test it by: the name the
\* LightsparkException was built with.
ErrorKind(e) == e.name

\* C11: on timer expiry the coordinator rejects with an error that names every
\* status of the awaited set, and the kind of that error differs from the kind
\* of the error raised when the subscription completes without an awaited
\* status, so the two outcomes can be told apart by kind.
C11_TimeoutKindDistinctFromCompletionKind ==
    \A c \in Calls :
        LET k == co[c] IN
        Subscribed(c) /\ k.timer = "fired" /\ OutcomeKind(k) = "TIMED_OUT" =>
            /\ k.result.err.expected = k.statuses
            /\ ErrorKind(k.result.err) # ErrorKind(CompletedError(k))

-----------------------------------------------------------------------------
(* What the status-await operations resolve with *)

\* The statuses an operation awaits.
AwaitedStatuses(name) ==
    CASE name = "deployWalletAndAwaitDeployed" -> DeployedStatuses
      [] name = "initializeWalletAndAwaitReady" -> ReadyStatuses
      [] name \in AwaitPaymentOps -> completionStatuses
      [] OTHER -> {}

\* C12: a status-await operation that resolves, resolves with a status of its
\* awaited set: DEPLOYED or FAILED for deployWalletAndAwaitDeployed, READY or
\* FAILED for initializeWalletAndAwaitReady, SUCCESS, FAILED or CANCELLED for
\* payInvoiceAndAwaitResult and sendPaymentAndAwaitResult; the same holds of
\* the coordinator's promise before the caller receives it.
C12_ResolvedValueIsTerminal ==
    \A c \in Calls :
        call[c].op \in AwaitOps =>
            /\ call[c].ret.state = "fulfilled" => call[c].ret.status \in AwaitedStatuses(call[c].op)
            /\ co[c].result.state = "fulfilled" => co[c].result.status \in AwaitedStatuses(call[c].op)

C12_Witness ==
    \E c, d \in Calls :
        /\ call[c].op = "initializeWalletAndAwaitReady" /\ Subscribed(c) /\ co[c].pushes = 2
        /\ Done(c) /\ call[c].ret = Fulfilled("READY")
        /\ call[d].op = "payInvoiceAndAwaitResult" /\ ~Subscribed(d)
        /\ Done(d) /\ call[d].ret = Fulfilled("CANCELLED")

-----------------------------------------------------------------------------
(* Termination of the coordinators *)

\* One await operation at a time, with the event loop's guarantees: time
\* passes, a timer whose delay has elapsed runs its callback, and queued
\* promise reactions run.
LiveCalls == {"c1"}

LiveNext ==
    \/ \E c \in LiveCalls : deployWalletAndAwaitDeployed(c)
    \/ \E c \in LiveCalls, key \in AwaitKeys : initializeWalletAndAwaitReady(c, key)
    \/ \E c \in LiveCalls, secs \in PaymentTimeoutChoices : payInvoiceAndAwaitResult(c, secs)
    \/ \E c \in LiveCalls, secs \in PaymentTimeoutChoices : sendPaymentAndAwaitResult(c, secs)
    \/ \E key \in AwaitKeys : loadWalletSigningKey(key)
    \/ \E c \in LiveCalls, r \in WalletResponses : deployWalletAndAwaitDeployedResumes(c, r)
    \/ \E c \in LiveCalls, r \in WalletResponses : initializeWalletAndAwaitReadyResumes(c, r)
    \/ \E c \in LiveCalls, r \in PaymentResponses : payInvoiceAndAwaitResultResumes(c, r)
    \/ \E c \in LiveCalls, r \in PaymentResponses : sendPaymentAndAwaitResultResumes(c, r)
    \/ \E c \in LiveCalls, w \in WalletWireValues : PushWalletStatus(c, w)
    \/ \E c \in LiveCalls, st \in PushedPaymentStatuses : PushPaymentStatus(c, st)
    \/ \E c \in LiveCalls, e \in TransportErrors : SubscriptionError(c, e)
    \/ \E c \in LiveCalls : SubscriptionComplete(c)
    \/ \E c \in LiveCalls : TimerFires(c)
    \/ Tick
    \/ \E c \in LiveCalls : RunFinally(c)
    \/ \E c \in LiveCalls : Deliver(c)

EventLoopFairness ==
    /\ WF_vars(Tick)
    /\ \A c \in LiveCalls : WF_vars(TimerFires(c))
    /\ \A c \in LiveCalls : WF_vars(RunFinally(c))
    /\ \A c \in LiveCalls : WF_vars(Deliver(c))

SpecLive == Init /\ [][LiveNext]_vars /\ EventLoopFairness

\* C13: every call of awaitPaymentResult / waitForWalletStatus eventually
\* settles; given that time passes and due timers fire, a coordinator that
\* subscribed eventually resolves or rejects and its caller receives that
\* outcome, whatever the subscription does (stays silent, pushes only other
\* statuses, errors, completes).
C13_EveryCoordinatorSettles ==
    \A c \in LiveCalls :
        (Subscribed(c) \/ call[c].pc = "waiting") ~> (Settled(c) /\ Done(c) /\ call[c].ret = co[c].result)

C13_Witness ==
    \E c \in LiveCalls :
        /\ call[c].op = "deployWalletAndAwaitDeployed" /\ Subscribed(c)
        /\ co[c].pushes >= 2 /\ co[c].firstTerminal = "" /\ co[c].sub = "unsubscribed"
        /\ co[c].timer = "fired" /\ Done(c) /\ call[c].ret.state = "rejected"

-----------------------------------------------------------------------------
(* Properties of the key cache *)

C14_AtMostOneEntry ==
    /\ \A e \in nodeKeyCache : e.nodeId \in NodeIds
    /\ \A id \in NodeIds : Cardinality(EntriesFor(nodeKeyCache, id)) <= 1

C14_LoadReplaces ==
    /\ \A key \in SigningKeys :
          loadWalletSigningKey(key) =>
              /\ isWalletUnlocked(nodeKeyCache')
              /\ EntriesFor(nodeKeyCache', WALLET_NODE_ID_KEY) = {Entry(WALLET_NODE_ID_KEY, key)}
    /\ nodeKeyCache' # nodeKeyCache =>
          \E key \in SigningKeys : nodeKeyCache' = {Entry(WALLET_NODE_ID_KEY, key)}

C14_SignsWithCurrentKey ==
    \A q \in wire' \ wire :
        q.signingNodeId # NoSigning =>
            /\ q.signedWith = KeysFor(nodeKeyCache', q.signingNodeId)
            /\ Cardinality(q.signedWith) = 1

\* C14: loading a key for a node id that already has one replaces it: the
\* cache never holds more than one entry per node id, after
\* loadWalletSigningKey(key) the wallet is unlocked and the single entry under
\* the wallet's fixed key id holds that key, whatever was loaded before, and a
\* request signed afterwards is signed with that key only.
C14_LoadKeyOverwrites ==
    /\ []C14_AtMostOneEntry
    /\ [][C14_LoadReplaces /\ C14_SignsWithCurrentKey]_vars

C14_Witness ==
    \E c, d \in Calls :
        /\ nodeKeyCache = {Entry(WALLET_NODE_ID_KEY, "k2")}
        /\ \E q \in SentFor(c) : q.signedWith = {"k1"}
        /\ \E q \in SentFor(d) : q.signedWith = {"k2"} /\ q.op = "payInvoice"

-----------------------------------------------------------------------------
(* Signing with the key cache *)

\* The node ids sign is asked for: the wallet's, and one never loaded.
SignNodeIds == {WALLET_NODE_ID_KEY, "other_node_id"}

KeyNotFound(id) == Err("KeyNotFoundError", id)

SignResult_unchecked(cache, id) ==
    IF HasKey(cache, id) THEN Fulfilled(CHOOSE k \in KeysFor(cache, id) : TRUE) ELSE Fulfilled("undefined")

\* sign(nodeId, payload): a signature made with the cached key of the node,
\* KeyNotFoundError when the cache has none.
SignResult(cache, id) ==
    IF HasKey(cache, id) THEN Fulfilled(CHOOSE k \in KeysFor(cache, id) : TRUE) ELSE Rejected(KeyNotFound(id))

sign(c, id) ==
    /\ MacroTask
    /\ call[c].pc = "idle"
    /\ call' = [call EXCEPT ![c] = [@ EXCEPT !.op = "sign", !.pc = "done",
                                              !.authorized = IsAuthorized(authProvider),
                                              !.unlocked = HasKey(nodeKeyCache, id),
                                              !.ret = SignResult(nodeKeyCache, id)]]
    /\ UNCHANGED <<authProvider, requesterAuth, nodeKeyCache, now, co, microtasks, wire, unhandled, activeWalletId>>

KeysNext ==
    \/ \E key \in SigningKeys : loadWalletSigningKey(key)
    \/ \E c \in Calls, id \in SignNodeIds : sign(c, id)
    \/ \E c \in Calls : payInvoice(c)
    \/ \E c \in Calls : requestWithdrawal(c)
    \/ \E c \in Calls, r \in PlainResponses : executeRawQueryReturns(c, r)

SpecKeys == Init /\ [][KeysNext]_vars

C15_FailsWithKeyNotFound ==
    \A c \in Calls :
        call[c].op = "sign" /\ ~call[c].unlocked =>
            /\ Done(c)
            /\ call[c].ret.state = "rejected"
            /\ call[c].ret.err.name = "KeyNotFoundError"
            /\ call[c].ret.err.msg \in SignNodeIds
            /\ call[c].handed = 0
            /\ SentFor(c) = {}

C15_NoEffect ==
    \A c \in Calls :
        call[c].op # "sign" /\ call'[c].op = "sign" =>
            nodeKeyCache' = nodeKeyCache /\ wire' = wire

\* C15: sign for a node id the key cache holds no key for fails with
\* KeyNotFoundError; nothing is handed to the network for it and the cache is
\* left as it was.
C15_SignUnloadedKeyFails ==
    /\ []C15_FailsWithKeyNotFound
    /\ [][C15_NoEffect]_vars

C15_Witness ==
    \E c, d \in Calls :
        /\ isWalletUnlocked(nodeKeyCache)
        /\ call[c].op = "sign" /\ call[c].ret = Rejected(KeyNotFound("other_node_id"))
        /\ call[d].op = "sign" /\ call[d].ret = Fulfilled("k2") /\ wire = {}

-----------------------------------------------------------------------------
(* No automatic retry of the operations that move funds *)

FundMovingOps == {"payInvoice", "sendPayment", "requestWithdrawal"}

C16_AtMostOnce ==
    \A c \in Calls :
        call[c].op \in FundMovingOps =>
            /\ call[c].handed <= 1
            /\ Cardinality(SentFor(c)) <= call[c].handed
            /\ Done(c) /\ call[c].unlocked => call[c].handed = 1

C16_FailureSurfaced ==
    \A c \in Calls :
        call[c].op \in FundMovingOps =>
            /\ \A r \in QueryErrors :
                  executeRawQueryReturns(c, r) =>
                      /\ call'[c].pc = "done"
                      /\ call'[c].ret = Rejected(Err(r, ""))
                      /\ call'[c].handed = call[c].handed
                      /\ wire' = wire
            /\ Done(c) => call'[c] = call[c] /\ {q \in wire' : q.call = c} = SentFor(c)

\* C16: a call of payInvoice, sendPayment or requestWithdrawal hands its
\* mutation to the Requester at most once; when the query fails (transport
\* failure, non-2xx response, GraphQL error) the call rejects with that
\* failure, and neither then nor later is the mutation handed over or sent
\* again.
C16_FundMovingMutationsNotRetried ==
    /\ []C16_AtMostOnce
    /\ [][C16_FailureSurfaced]_vars

C16_Witness ==
    \E c, d \in Calls :
        /\ call[c].op = "payInvoice" /\ Done(c) /\ call[c].ret = Rejected(Err("NetworkError", ""))
        /\ call[c].handed = 1 /\ Cardinality(SentFor(c)) = 1
        /\ call[d].op = "requestWithdrawal" /\ Done(d) /\ call[d].ret = Rejected(Err("GraphQLError", ""))
        /\ call[d].handed = 1 /\ Cardinality(SentFor(d)) = 1

-----------------------------------------------------------------------------
(* The legacy client (src/index.ts): unlockWallet *)

WalletIds == {"w1", "w2"}
MaxBlobLen == 2
\* 0x30 (also the character 0), the characters - and A, and 0x82, a byte that
\* is no UTF-8 text on its own.
Bytes == {48, 45, 65, 130}

DERTag == 48
ReplacementChar == 65533

RECURSIVE SeqsUpTo(_, _)
SeqsUpTo(S, n) ==
    IF n = 0 THEN {<<>>}
    ELSE LET shorter == SeqsUpTo(S, n - 1)
         IN  shorter \cup {Append(q, x) : q \in shorter, x \in S}

\* What decryption can yield: nothing, or a key blob.
Blobs == SeqsUpTo(Bytes, MaxBlobLen)

\* Strings are sequences of character codes.
\* The base64 alphabet: A-Z, a-z, 0-9, + and /; = pads.
B64Char(i) ==
    IF i < 26 THEN 65 + i
    ELSE IF i < 52 THEN 97 + (i - 26)
    ELSE IF i < 62 THEN 48 + (i - 52)
    ELSE IF i = 62 THEN 43 ELSE 47
B64Pad == 61

RECURSIVE b64encode(_)
b64encode(bytes) ==
    IF Len(bytes) = 0 THEN <<>>
    ELSE IF Len(bytes) = 1
    THEN <<B64Char(bytes[1] \div 4), B64Char((bytes[1] % 4) * 16), B64Pad, B64Pad>>
    ELSE IF Len(bytes) = 2
    THEN <<B64Char(bytes[1] \div 4), B64Char((bytes[1] % 4) * 16 + bytes[2] \div 16),
           B64Char((bytes[2] % 16) * 4), B64Pad>>
    ELSE <<B64Char(bytes[1] \div 4), B64Char((bytes[1] % 4) * 16 + bytes[2] \div 16),
           B64Char((bytes[2] % 16) * 4 + bytes[3] \div 64), B64Char(bytes[3] % 64)>>
         \o b64encode(SubSeq(bytes, 4, Len(bytes)))

\* new TextDecoder().decode: UTF-8; an ASCII byte is its character, a byte
\* that starts no valid sequence becomes U+FFFD.
TextDecode(bytes) == [i \in 1..Len(bytes) |-> IF bytes[i] < 128 THEN bytes[i] ELSE ReplacementChar]

IsDER_tagAndLength(blob) == Len(blob) > 1 /\ blob[1] = DERTag /\ blob[2] = 130

\* new Uint8Array(signingPrivateKey)[0] === 48
IsDER(blob) == Len(blob) > 0 /\ blob[1] = DERTag

signingPrivateKeyPEM(blob) == IF IsDER(blob) THEN b64encode(blob) ELSE TextDecode(blob)

LegacyInit ==
    /\ authProvider \in AuthProviders
    /\ requesterAuth = authProvider
    /\ nodeKeyCache = {}
    /\ now = 0
    /\ call = [c \in Calls |-> IdleCall]
    /\ co = [c \in Calls |-> NoCoordinator]
    /\ microtasks = <<>>
    /\ wire = {}
    /\ unhandled = {}
    /\ activeWalletId \in {""} \cup WalletIds

\* unlockWallet up to its first await: the RecoverNodeSigningKey query is sent.
unlockWallet(c, walletId) ==
    /\ MacroTask
    /\ call[c].pc = "idle"
    /\ call' = [call EXCEPT ![c] = [@ EXCEPT !.op = "unlockWallet", !.pc = "recovering",
                                              !.authorized = IsAuthorized(authProvider),
                                              !.unlocked = HasKey(nodeKeyCache, walletId),
                                              !.handed = @ + 1,
                                              !.input = <<walletId>>]]
    /\ wire' = wire \cup {Request(c, "recoverNodeSigningKey", NoSigning, nodeKeyCache)}
    /\ UNCHANGED <<authProvider, requesterAuth, nodeKeyCache, now, co, microtasks, unhandled, activeWalletId>>

unlockWalletRecovered_activatesEarly(c, encryptedKey) ==
    /\ MacroTask
    /\ call[c].pc = "recovering"
    /\ call' = [call EXCEPT ![c] = IF encryptedKey = "null"
                                   THEN [@ EXCEPT !.pc = "done", !.ret = Fulfilled("false")]
                                   ELSE [@ EXCEPT !.pc = "decrypting"]]
    /\ activeWalletId' = call[c].input[1]
    /\ UNCHANGED <<authProvider, requesterAuth, nodeKeyCache, now, co, microtasks, wire, unhandled>>

\* The query returns: without an encrypted key unlockWallet returns false,
\* with one it goes on to decrypt it.
unlockWalletRecovered(c, encryptedKey) ==
    /\ MacroTask
    /\ call[c].pc = "recovering"
    /\ call' = [call EXCEPT ![c] = IF encryptedKey = "null"
                                   THEN [@ EXCEPT !.pc = "done", !.ret = Fulfilled("false")]
                                   ELSE [@ EXCEPT !.pc = "decrypting"]]
    /\ UNCHANGED <<authProvider, requesterAuth, nodeKeyCache, now, co, microtasks, wire, unhandled, activeWalletId>>

DecryptFailed == Err("Error", "Unable to decrypt signing key with provided password. Please try again.")

\* decryptSecretWithNodePassword yielded nothing.
unlockWalletDecryptFails(c) ==
    /\ MacroTask
    /\ call[c].pc = "decrypting"
    /\ call' = [call EXCEPT ![c] = [@ EXCEPT !.pc = "done", !.ret = Rejected(DecryptFailed)]]
    /\ UNCHANGED <<authProvider, requesterAuth, nodeKeyCache, now, co, microtasks, wire, unhandled, activeWalletId>>

\* decryptSecretWithNodePassword yielded the key blob: it is stored under
\* walletId, which becomes the active wallet.
unlockWalletDecrypted(c, blob) ==
    /\ MacroTask
    /\ call[c].pc = "decrypting"
    /\ LET walletId == call[c].input[1]
       IN  /\ nodeKeyCache' = LoadKey(nodeKeyCache, walletId, signingPrivateKeyPEM(blob))
           /\ activeWalletId' = walletId
           /\ call' = [call EXCEPT ![c] = [@ EXCEPT !.pc = "done", !.ret = Fulfilled("true"),
                                                    !.input = <<walletId, blob>>]]
    /\ UNCHANGED <<authProvider, requesterAuth, now, co, microtasks, wire, unhandled>>

NoActiveWallet == Err("Error", "No active wallet")
WalletNotUnlocked == Err("Error", "Wallet is not unlocked")
PaymentFailureMessages == {"no route"}

payInvoiceLegacy_unchecked(c) ==
    /\ MacroTask
    /\ call[c].pc = "idle"
    /\ LET walletId == activeWalletId
           started == [call[c] EXCEPT !.op = "payInvoiceLegacy", !.input = <<walletId>>,
                                      !.authorized = IsAuthorized(authProvider),
                                      !.unlocked = HasKey(nodeKeyCache, walletId)]
       IN  IF walletId = ""
           THEN /\ call' = [call EXCEPT ![c] = [started EXCEPT !.pc = "done", !.ret = Rejected(NoActiveWallet)]]
                /\ UNCHANGED wire
           ELSE /\ call' = [call EXCEPT ![c] = [started EXCEPT !.pc = "mutating", !.handed = @ + 1]]
                /\ wire' = wire \cup {Request(c, "PayInvoice", walletId, nodeKeyCache)}
    /\ UNCHANGED <<authProvider, requesterAuth, nodeKeyCache, now, co, microtasks, unhandled, activeWalletId>>

\* payInvoice of the legacy client up to its await: requireWalletId, the
\* hasKey check, then the PayInvoice mutation with the signing-node-id header.
payInvoiceLegacy(c) ==
    /\ MacroTask
    /\ call[c].pc = "idle"
    /\ LET walletId == activeWalletId
           started == [call[c] EXCEPT !.op = "payInvoiceLegacy", !.input = <<walletId>>,
                                      !.authorized = IsAuthorized(authProvider),
                                      !.unlocked = HasKey(nodeKeyCache, walletId)]
       IN  IF walletId = ""
           THEN /\ call' = [call EXCEPT ![c] = [started EXCEPT !.pc = "done", !.ret = Rejected(NoActiveWallet)]]
                /\ UNCHANGED wire
           ELSE IF ~HasKey(nodeKeyCache, walletId)
           THEN /\ call' = [call EXCEPT ![c] = [started EXCEPT !.pc = "done", !.ret = Rejected(WalletNotUnlocked)]]
                /\ UNCHANGED wire
           ELSE /\ call' = [call EXCEPT ![c] = [started EXCEPT !.pc = "mutating", !.handed = @ + 1]]
                /\ wire' = wire \cup {Request(c, "PayInvoice", walletId, nodeKeyCache)}
    /\ UNCHANGED <<authProvider, requesterAuth, nodeKeyCache, now, co, microtasks, unhandled, activeWalletId>>

\* The mutation returns: with a failure message payInvoice throws it,
\* without one it returns nothing.
payInvoiceLegacyReturns(c, failure) ==
    /\ MacroTask
    /\ call[c].pc = "mutating"
    /\ call' = [call EXCEPT ![c] = [@ EXCEPT !.pc = "done",
                                             !.ret = IF failure = "" THEN Fulfilled("void")
                                                     ELSE Rejected(Err("Error", failure))]]
    /\ UNCHANGED <<authProvider, requesterAuth, nodeKeyCache, now, co, microtasks, wire, unhandled, activeWalletId>>

LegacyNext ==
    \/ \E c \in Calls, w \in WalletIds : unlockWallet(c, w)
    \/ \E c \in Calls, e \in {"null", "encrypted"} : unlockWalletRecovered(c, e)
    \/ \E c \in Calls : unlockWalletDecryptFails(c)
    \/ \E c \in Calls, blob \in Blobs : unlockWalletDecrypted(c, blob)
    \/ \E c \in Calls : payInvoiceLegacy(c)
    \/ \E c \in Calls, failure \in {""} \cup PaymentFailureMessages : payInvoiceLegacyReturns(c, failure)

SpecLegacy == LegacyInit /\ [][LegacyNext]_vars

C17_StoredByFirstByte ==
    \A c \in Calls, blob \in Blobs :
        unlockWalletDecrypted(c, blob) =>
            LET walletId == call[c].input[1]
                stored == KeysFor(nodeKeyCache', walletId)
            IN  /\ (Len(blob) > 0 /\ blob[1] = 48) => stored = {b64encode(blob)}
                /\ ~(Len(blob) > 0 /\ blob[1] = 48) => stored = {TextDecode(blob)}

\* C17: the key blob unlockWallet decrypted is stored base64-encoded when its
\* first byte is 0x30 and as the text its bytes decode to otherwise, whatever
\* the bytes after the first are.
C17_DerDetectedByFirstByte ==
    [][C17_StoredByFirstByte]_vars

C17_Witness ==
    \E c, d \in Calls :
        /\ call[c].op = "unlockWallet" /\ Done(c) /\ call[c].input = <<"w1", <<48, 45>>>>
        /\ KeysFor(nodeKeyCache, "w1") = {<<77, 67, 48, 61>>}
        /\ call[d].op = "unlockWallet" /\ Done(d) /\ call[d].input = <<"w2", <<45, 48>>>>
        /\ KeysFor(nodeKeyCache, "w2") = {<<45, 48>>}

-----------------------------------------------------------------------------
(* Sessions: loginWithJWT and the expiry of the token *)

MaxTicks == 3
\* How long after the login the token is good, in milliseconds.
JwtLifetimes == {TickMs, 2 * TickMs}

LoginFailed == Err("LightsparkAuthException", "Login failed. Please check your credentials and try again.")

\* A client built with a session-token provider whose storage holds a token.
JwtInit ==
    /\ authProvider \in {CustomJwtAuthProvider(v) : v \in JwtLifetimes}
    /\ requesterAuth = authProvider
    /\ nodeKeyCache = {}
    /\ now = 0
    /\ call = [c \in Calls |-> IdleCall]
    /\ co = [c \in Calls |-> NoCoordinator]
    /\ microtasks = <<>>
    /\ wire = {}
    /\ unhandled = {}
    /\ activeWalletId = ""

loginWithJWT(c) ==
    Invoke(c, "loginWithJWT", 0, FALSE, FALSE, NoSigning, nodeKeyCache)

AccessTokens == {"t1", "t2"}
NoTokenInfo == [accessToken |-> "", validUntil |-> 0]
TokenInfo(token, validUntil) == [accessToken |-> token, validUntil |-> validUntil]

\* new CustomJwtAuthProvider(storage) after setTokenInfo(tokenInfo)
CustomJwtAuthProviderHolding(tokenInfo) ==
    [kind |-> "jwt", validUntil |-> tokenInfo.validUntil, accessToken |-> tokenInfo.accessToken]

StorageFailed == Err("StorageError", "")

\* The storage handed to loginWithJWT and the token the call is about are
\* kept with the call: input = <<tokenInfo of the response, contents of storage>>.
ResponseTokenInfo(c) == call[c].input[1]
StorageOf(c) == call[c].input[2]

loginWithJWTResumes_replacesFirst(c, r, lifetime, token) ==
    /\ MacroTask
    /\ call[c].pc = "inflight"
    /\ call[c].op = "loginWithJWT"
    /\ IF r \in QueryErrors
       THEN /\ call' = [call EXCEPT ![c] = [@ EXCEPT !.pc = "done", !.ret = Rejected(Err(r, ""))]]
            /\ UNCHANGED <<authProvider, requesterAuth>>
       ELSE IF r = "null"
       THEN /\ call' = [call EXCEPT ![c] = [@ EXCEPT !.pc = "done", !.ret = Rejected(LoginFailed)]]
            /\ UNCHANGED <<authProvider, requesterAuth>>
       ELSE /\ call' = [call EXCEPT ![c] = [@ EXCEPT !.pc = "storing",
                                                     !.input = <<TokenInfo(token, now + lifetime), NoTokenInfo>>]]
            /\ requesterAuth' = CustomJwtAuthProviderHolding(TokenInfo(token, now + lifetime))
            /\ authProvider' = CustomJwtAuthProviderHolding(TokenInfo(token, now + lifetime))
    /\ UNCHANGED <<nodeKeyCache, now, co, microtasks, wire, unhandled, activeWalletId>>

\* The login query returns: an error, no response, or a token with its
\* validUntil. With a token the call goes on to authProvider.setTokenInfo,
\* which writes to the storage.
loginWithJWTResumes(c, r, lifetime, token) ==
    /\ MacroTask
    /\ call[c].pc = "inflight"
    /\ call[c].op = "loginWithJWT"
    /\ IF r \in QueryErrors
       THEN call' = [call EXCEPT ![c] = [@ EXCEPT !.pc = "done", !.ret = Rejected(Err(r, ""))]]
       ELSE IF r = "null"
       THEN call' = [call EXCEPT ![c] = [@ EXCEPT !.pc = "done", !.ret = Rejected(LoginFailed)]]
       ELSE call' = [call EXCEPT ![c] = [@ EXCEPT !.pc = "storing",
                                                  !.input = <<TokenInfo(token, now + lifetime), NoTokenInfo>>]]
    /\ UNCHANGED <<authProvider, requesterAuth, nodeKeyCache, now, co, microtasks, wire, unhandled, activeWalletId>>

\* The storage rejects the write: setTokenInfo rejects, and so does the call.
setTokenInfoFails(c) ==
    /\ MacroTask
    /\ call[c].pc = "storing"
    /\ call' = [call EXCEPT ![c] = [@ EXCEPT !.pc = "done", !.ret = Rejected(StorageFailed)]]
    /\ UNCHANGED <<authProvider, requesterAuth, nodeKeyCache, now, co, microtasks, wire, unhandled, activeWalletId>>

\* The storage has written the token: setTokenInfo resolves, and the rest of
\* loginWithJWT is queued as the reaction of that promise.
setTokenInfoStored(c) ==
    /\ MacroTask
    /\ call[c].pc = "storing"
    /\ call' = [call EXCEPT ![c] = [@ EXCEPT !.pc = "stored",
                                             !.input = <<ResponseTokenInfo(c), ResponseTokenInfo(c)>>]]
    /\ microtasks' = <<Job(c, "setAuthProvider")>>
    /\ UNCHANGED <<authProvider, requesterAuth, nodeKeyCache, now, co, wire, unhandled, activeWalletId>>

\* await this.setAuthProvider(authProvider); return response
loginWithJWTSetsAuthProvider(c) ==
    /\ microtasks # <<>>
    /\ Head(microtasks) = Job(c, "setAuthProvider")
    /\ microtasks' = Tail(microtasks)
    /\ requesterAuth' = CustomJwtAuthProviderHolding(StorageOf(c))
    /\ authProvider' = CustomJwtAuthProviderHolding(StorageOf(c))
    /\ call' = [call EXCEPT ![c] = [@ EXCEPT !.pc = "done", !.ret = Fulfilled("object")]]
    /\ UNCHANGED <<nodeKeyCache, now, co, wire, unhandled, activeWalletId>>

\* Time passes.
ClockAdvances ==
    /\ MacroTask
    /\ now < MaxTicks * TickMs
    /\ now' = now + TickMs
    /\ UNCHANGED <<authProvider, requesterAuth, nodeKeyCache, call, co, microtasks, wire, unhandled, activeWalletId>>

JwtNext ==
    \/ \E c \in Calls : loginWithJWT(c)
    \/ \E c \in Calls, r \in PlainResponses, lifetime \in JwtLifetimes, token \in AccessTokens :
          loginWithJWTResumes(c, r, lifetime, token)
    \/ \E c \in Calls : setTokenInfoFails(c)
    \/ \E c \in Calls : setTokenInfoStored(c)
    \/ \E c \in Calls : loginWithJWTSetsAuthProvider(c)
    \/ \E p \in AuthProviders : setAuthProvider(p)
    \/ \E key \in AwaitKeys : loadWalletSigningKey(key)
    \/ \E c \in Calls : deployWallet(c)
    \/ \E c \in Calls : getCurrentWallet(c)
    \/ \E c \in Calls, r \in PlainResponses : executeRawQueryReturns(c, r)
    \/ ClockAdvances

SpecJwt == JwtInit /\ [][JwtNext]_vars

\* C18: the session-token provider is authorized exactly while now is before
\* the validUntil of its token, and an operation that requires valid auth,
\* called once the token has expired, fails with the auth exception: its query
\* is not handed to the Requester and nothing is sent for it.
C18_ExpiredSessionFailsNextCall ==
    /\ authProvider.kind = "jwt" => (IsAuthorized(authProvider) <=> now < authProvider.validUntil)
    /\ \A c \in Calls :
          call[c].op \in AuthRequiredOps /\ ~call[c].authorized =>
              /\ Done(c)
              /\ call[c].ret.state = "rejected"
              /\ call[c].ret.err.name = "LightsparkAuthException"
              /\ call[c].handed = 0
              /\ SentFor(c) = {}

-----------------------------------------------------------------------------
(* The auth providers' three operations *)

\* Objects (header maps, connection params) are functions from their keys.
HeaderNames == {"authorization", "content-type"}
HeaderValues == {<<66>>, <<>>}
ParamNames == {"client_id", "token"}
ObjectsOver(names, values) == UNION {[D -> values] : D \in SUBSET names}
HeaderMaps == ObjectsOver(HeaderNames, HeaderValues)
ParamMaps == ObjectsOver(ParamNames, HeaderValues)

\* Object.assign(target, source): source's keys win.
ObjectAssign(target, source) ==
    [k \in DOMAIN target \cup DOMAIN source |-> IF k \in DOMAIN source THEN source[k] ELSE target[k]]
EmptyObject == [k \in {} |-> <<>>]

\* new TextEncoder().encode: UTF-8, one byte below U+0080, two below U+0800.
RECURSIVE TextEncode(_)
TextEncode(chars) ==
    IF Len(chars) = 0 THEN <<>>
    ELSE (IF Head(chars) < 128 THEN <<Head(chars)>>
          ELSE <<192 + (Head(chars) \div 64), 128 + (Head(chars) % 64)>>)
         \o TextEncode(Tail(chars))

Colon == 58
\* "Basic "
BasicPrefix == <<66, 97, 115, 105, 99, 32>>

\* The ids and secrets of the model: a, ab; s, and e-acute.
ClientIds == {<<97>>, <<97, 98>>}
ClientSecrets == {<<115>>, <<233>>}

\* new AccountTokenAuthProvider(apiTokenClientId, apiTokenClientSecret)
AccountTokenAuthProviderOf(id, secret) ==
    [kind |-> "account", validUntil |-> 0,
     apiTokenClientId |-> id, apiTokenClientSecret |-> secret,
     utf8AuthBytes |-> TextEncode(id \o <<Colon>> \o secret)]

CredentialProviders == {AccountTokenAuthProviderOf(id, secret) : id \in ClientIds, secret \in ClientSecrets}

\* What an operation returns and what it leaves of the object it was given.
Returned(result, arg) == [result |-> result, arg |-> arg]

AccountAddAuthHeaders_inPlace(p, headers) ==
    LET merged == ObjectAssign(headers, [authorization |-> BasicPrefix \o b64encode(p.utf8AuthBytes)])
    IN  Returned(merged, merged)

AccountAddAuthHeaders(p, headers) ==
    Returned(ObjectAssign(ObjectAssign(EmptyObject, headers),
                          [authorization |-> BasicPrefix \o b64encode(p.utf8AuthBytes)]),
             headers)

AccountAddWsConnectionParams(p, params) ==
    Returned(ObjectAssign(ObjectAssign(EmptyObject, params),
                          [client_id |-> p.apiTokenClientId, client_secret |-> p.apiTokenClientSecret]),
             params)

StubAddAuthHeaders_emptyAuthorization(p, headers) ==
    Returned(ObjectAssign(headers, [authorization |-> <<>>]), headers)

StubAddAuthHeaders(p, headers) == Returned(headers, headers)

StubAddWsConnectionParams(p, params) == Returned(params, params)

\* constructor(authProvider = new StubAuthProvider(), ...)
NoArgument == [kind |-> "undefined"]
ConstructedWith(authProviderArg) ==
    IF authProviderArg.kind = "undefined" THEN StubAuthProvider ELSE authProviderArg

ProviderInit ==
    /\ authProvider \in {ConstructedWith(a) : a \in {NoArgument} \cup CredentialProviders}
    /\ requesterAuth = authProvider
    /\ nodeKeyCache = {}
    /\ now = 0
    /\ call = [c \in Calls |-> IdleCall]
    /\ co = [c \in Calls |-> NoCoordinator]
    /\ microtasks = <<>>
    /\ wire = {}
    /\ unhandled = {}
    /\ activeWalletId = ""

\* A call of one of the provider's operations: its result, and, in input, the
\* object it was given, the provider it was called on and the object as the
\* call left it.
ProviderCall(c, name, arg, out) ==
    /\ MacroTask
    /\ call[c].pc = "idle"
    /\ call' = [call EXCEPT ![c] = [@ EXCEPT !.op = name, !.pc = "done",
                                              !.authorized = IsAuthorized(authProvider),
                                              !.ret = Fulfilled(out.result),
                                              !.input = <<arg, authProvider, out.arg>>]]
    /\ UNCHANGED <<authProvider, requesterAuth, nodeKeyCache, now, co, microtasks, wire, unhandled, activeWalletId>>

addAuthHeaders(c, headers) ==
    ProviderCall(c, "addAuthHeaders", headers,
                 IF authProvider.kind = "account"
                 THEN AccountAddAuthHeaders(authProvider, headers)
                 ELSE StubAddAuthHeaders(authProvider, headers))

addWsConnectionParams(c, params) ==
    ProviderCall(c, "addWsConnectionParams", params,
                 IF authProvider.kind = "account"
                 THEN AccountAddWsConnectionParams(authProvider, params)
                 ELSE StubAddWsConnectionParams(authProvider, params))

isAuthorized(c) ==
    ProviderCall(c, "isAuthorized", EmptyObject, Returned(IsAuthorized(authProvider), EmptyObject))

ProviderNext ==
    \/ \E c \in Calls, h \in HeaderMaps : addAuthHeaders(c, h)
    \/ \E c \in Calls, p \in ParamMaps : addWsConnectionParams(c, p)
    \/ \E c \in Calls : isAuthorized(c)
    \/ \E p \in CredentialProviders \cup {StubAuthProvider} : setAuthProvider(p)

SpecProviders == ProviderInit /\ [][ProviderNext]_vars

CalledOn(c, name, kind) ==
    call[c].op = name /\ Done(c) /\ call[c].input[2].kind = kind

\* C19: addAuthHeaders(h) of the static-credential provider returns a map with
\* the keys of h and authorization, equal to h on every other key, whose
\* authorization is "Basic " followed by the base64 of clientId ":"
\* clientSecret, the same on every call of the same provider; h is left as it
\* was; and isAuthorized() is true.
C19_BasicAuthHeaderAdded ==
    /\ \A c \in Calls :
          CalledOn(c, "addAuthHeaders", "account") =>
              LET h == call[c].input[1]
                  p == call[c].input[2]
                  out == call[c].ret.status
              IN  /\ DOMAIN out = DOMAIN h \cup {"authorization"}
                  /\ \A k \in DOMAIN h \ {"authorization"} : out[k] = h[k]
                  /\ out["authorization"] =
                        BasicPrefix \o b64encode(TextEncode(p.apiTokenClientId \o <<58>> \o p.apiTokenClientSecret))
                  /\ call[c].input[3] = h
                  /\ \A d \in Calls :
                        CalledOn(d, "addAuthHeaders", "account") /\ call[d].input[2] = p =>
                            call[d].ret.status["authorization"] = out["authorization"]
    /\ \A c \in Calls :
          CalledOn(c, "isAuthorized", "account") => call[c].ret.status = TRUE

C19_Witness ==
    \E c, d \in Calls :
        /\ CalledOn(c, "addAuthHeaders", "account")
        /\ call[c].input[1] = [authorization |-> <<66>>]
        /\ call[c].input[2].apiTokenClientId = <<97>> /\ call[c].input[2].apiTokenClientSecret = <<115>>
        /\ call[c].ret.status = [authorization |-> <<66, 97, 115, 105, 99, 32, 89, 84, 112, 122>>]
        /\ CalledOn(d, "isAuthorized", "account") /\ call[d].ret.status = TRUE

\* C20: the stub provider returns the headers and the connection params it is
\* given, unchanged, its isAuthorized() is false whenever it is asked, and it
\* is the provider of a client constructed without one.
C20_StubPassesThroughUnauthorized ==
    /\ \A c \in Calls :
          CalledOn(c, "addAuthHeaders", "stub") =>
              call[c].ret.status = call[c].input[1] /\ call[c].input[3] = call[c].input[1]
    /\ \A c \in Calls :
          CalledOn(c, "addWsConnectionParams", "stub") =>
              call[c].ret.status = call[c].input[1] /\ call[c].input[3] = call[c].input[1]
    /\ \A c \in Calls :
          CalledOn(c, "isAuthorized", "stub") => call[c].ret.status = FALSE /\ ~call[c].authorized
    /\ authProvider.kind = "stub" => ~IsAuthorized(authProvider)
    /\ ConstructedWith(NoArgument).kind = "stub"

C20_Witness ==
    \E c, d \in Calls :
        /\ CalledOn(c, "addAuthHeaders", "stub")
        /\ call[c].input[1] = [authorization |-> <<66>>]
        /\ call[c].ret.status = [authorization |-> <<66>>]
        /\ CalledOn(d, "addWsConnectionParams", "stub")
        /\ call[d].input[1] = [token |-> <<66>>] /\ call[d].ret.status = [token |-> <<66>>]
        /\ authProvider.kind = "account"

-----------------------------------------------------------------------------
(* The object mappers: enum values read from the wire *)

\* The members of the enums, FUTURE_VALUE among them.
BitcoinNetwork == {"MAINNET", "REGTEST", "FUTURE_VALUE"}
KeyType == {"RSA_OAEP", "FUTURE_VALUE"}
InvoiceType == {"STANDARD", "AMP", "FUTURE_VALUE"}
Permission == {"ALL", "MAINNET_VIEW", "FUTURE_VALUE"}

Undefined == "undefined"
Null == "null"
\* A field the JSON does not have reads as undefined.
Absent == Undefined

\* Enum[key]: the member of that name, undefined when there is none.
EnumLookup(enum, key) == IF key \in enum THEN key ELSE Undefined

\* a ?? b
Coalesce(a, b) == IF a \in {Undefined, Null} THEN b ELSE a

\* !!a of a string or of undefined
Truthy(a) == a \notin {Undefined, Null, ""}

\* What the server can put in an enum field: members the client knows, and a
\* member added after the client's release.
EnumWireValues == {"MAINNET", "RSA_OAEP", "AMP", "ALL", "READY", "NEW_MEMBER"}
MaxPermissions == 2
PermissionLists == SeqsUpTo({"ALL", "NEW_MEMBER"}, MaxPermissions)

InvoiceDataFromJson(w) == Coalesce(EnumLookup(BitcoinNetwork, w), "FUTURE_VALUE")

KeyInputFromJson(w) == Coalesce(EnumLookup(KeyType, w), "FUTURE_VALUE")

CreateInvoiceInputFromJson(w) ==
    IF Truthy(w) THEN Coalesce(EnumLookup(InvoiceType, w), "FUTURE_VALUE") ELSE Null

\* obj["api_token_permissions"].map((e) => Permission[e])
ApiTokenFromJson(ws) == [i \in 1..Len(ws) |-> EnumLookup(Permission, ws[i])]

\* A mapper applied to what the wire carried: input holds the wire value and
\* the enum's members, ret the mapped field.
MapperCall(c, name, w, enum, mapped) ==
    /\ MacroTask
    /\ call[c].pc = "idle"
    /\ call' = [call EXCEPT ![c] = [@ EXCEPT !.op = name, !.pc = "done",
                                              !.ret = Fulfilled(mapped),
                                              !.input = <<w, enum>>]]
    /\ UNCHANGED <<authProvider, requesterAuth, nodeKeyCache, now, co, microtasks, wire, unhandled, activeWalletId>>

MapInvoiceData(c, w) == MapperCall(c, "InvoiceDataFromJson", <<w>>, BitcoinNetwork, <<InvoiceDataFromJson(w)>>)
MapKeyInput(c, w) == MapperCall(c, "KeyInputFromJson", <<w>>, KeyType, <<KeyInputFromJson(w)>>)
MapCreateInvoiceInput(c, w) ==
    MapperCall(c, "CreateInvoiceInputFromJson", <<w>>, InvoiceType, <<CreateInvoiceInputFromJson(w)>>)
MapApiToken(c, ws) == MapperCall(c, "ApiTokenFromJson", ws, Permission, ApiTokenFromJson(ws))
MapWalletStatus(c, w) ==
    MapperCall(c, "listenToWalletStatus", <<w>>, WalletStatusMembers, <<WalletStatusFromWire(w)>>)

MapperNext ==
    \/ \E c \in Calls, w \in EnumWireValues : MapInvoiceData(c, w)
    \/ \E c \in Calls, w \in EnumWireValues : MapKeyInput(c, w)
    \/ \E c \in Calls, w \in EnumWireValues \cup {Absent} : MapCreateInvoiceInput(c, w)
    \/ \E c \in Calls, ws \in PermissionLists : MapApiToken(c, ws)
    \/ \E c \in Calls, w \in EnumWireValues : MapWalletStatus(c, w)

SpecMappers == Init /\ [][MapperNext]_vars

MapperOps == {"InvoiceDataFromJson", "KeyInputFromJson", "CreateInvoiceInputFromJson",
              "ApiTokenFromJson", "listenToWalletStatus"}

\* C21: every mapper turns an enum value of the wire that is no member of its
\* enum into FUTURE_VALUE, and a member into itself: the fields of
\* InvoiceData, KeyInput, CreateInvoiceInput, each permission of ApiToken and
\* the pushed wallet status; FUTURE_VALUE is none of the awaited wallet
\* statuses, so a coordinator's next-handler leaves the coordinator as it is.
C21_UnknownEnumValueIsFutureValue ==
    /\ \A c \in Calls :
          call[c].op \in MapperOps /\ Done(c) =>
              LET ws == call[c].input[1]
                  enum == call[c].input[2]
                  out == call[c].ret.status
              IN  /\ Len(out) = Len(ws)
                  /\ \A i \in 1..Len(ws) :
                        /\ ws[i] \in EnumWireValues \ enum => out[i] = "FUTURE_VALUE"
                        /\ ws[i] \in enum => out[i] = ws[i]
    /\ "FUTURE_VALUE" \notin DeployedStatuses \cup ReadyStatuses
    /\ \A c \in Calls : next(co[c], "FUTURE_VALUE") = co[c]

-----------------------------------------------------------------------------
(* Concurrent coordinators *)

C22_OwnTimerAndSubscription ==
    \A c \in Calls :
        Subscribed(c) /\ ~Settled(c) =>
            /\ co[c].timer = "armed" /\ co[c].sub = "live"
            /\ co[c].clearCalls = 0 /\ co[c].unsubCalls = 0
            /\ co[c].deadline = co[c].startedAt + TimerDelay(call[c].timeoutSecs)

C22_StepOfOneLeavesTheOthers ==
    \A c \in Calls :
        (co'[c] # co[c] \/ call'[c] # call[c]) =>
            \A d \in Calls \ {c} : co'[d] = co[d] /\ call'[d] = call[d]

\* C22: each coordinator holds its own timer and its own subscription: while
\* it has not settled they are armed and live whatever has happened to the
\* other calls, and a step of one call (its timeout, subscription error,
\* completion, resolution, or the cleanup after them) changes nothing of any
\* other call: not its promise, its subscription, its timer or its query.
C22_CoordinatorsAreIndependent ==
    /\ []C22_OwnTimerAndSubscription
    /\ [][C22_StepOfOneLeavesTheOthers]_vars

C22_Witness ==
    \E c, d \in Calls :
        /\ Subscribed(c) /\ Done(c) /\ OutcomeKind(co[c]) = "TIMED_OUT"
        /\ co[c].clearCalls = 1 /\ co[c].unsubCalls = 1
        /\ Subscribed(d) /\ co[d].result = Pending /\ co[d].pushes > 0
        /\ co[d].timer = "armed" /\ co[d].sub = "live" /\ co[d].startedAt < co[c].deadline

-----------------------------------------------------------------------------
(* loginWithJWT *)

C23_NoResponseThrows ==
    \A c \in Calls, lifetime \in JwtLifetimes, token \in AccessTokens :
        loginWithJWTResumes(c, "null", lifetime, token) =>
            /\ call'[c].pc = "done"
            /\ call'[c].ret = Rejected(LoginFailed)
            /\ call'[c].ret.err.name = "LightsparkAuthException"
            /\ authProvider' = authProvider /\ requesterAuth' = requesterAuth

\* A step of the call touches the provider only when the call's token is
\* already in its storage; that step replaces the provider and the requester's
\* provider by a JWT provider holding the token.
C23_StoredBeforeReplaced ==
    \A c \in Calls :
        call[c].op = "loginWithJWT" /\ call[c].pc # "idle" /\ call'[c] # call[c] =>
            IF call[c].pc = "stored"
            THEN /\ StorageOf(c) = ResponseTokenInfo(c)
                 /\ authProvider' = CustomJwtAuthProviderHolding(ResponseTokenInfo(c))
                 /\ requesterAuth' = authProvider'
                 /\ call'[c].pc = "done" /\ call'[c].ret.state = "fulfilled"
            ELSE /\ authProvider' = authProvider /\ requesterAuth' = requesterAuth
                 /\ call'[c].pc = "stored" => call'[c].input[2] = call[c].input[1]

C23_FinishedFulfilledReplaces ==
    \A c \in Calls :
        call[c].op = "loginWithJWT" /\ call[c].pc # "done" /\ call'[c].pc = "done" =>
            IF call'[c].ret.state = "fulfilled"
            THEN /\ authProvider'.kind = "jwt"
                 /\ authProvider'.accessToken = ResponseTokenInfo(c).accessToken
                 /\ authProvider'.validUntil = ResponseTokenInfo(c).validUntil
                 /\ requesterAuth' = authProvider'
            ELSE authProvider' = authProvider /\ requesterAuth' = requesterAuth

C23_StorageFailureKeepsProvider ==
    \A c \in Calls :
        setTokenInfoFails(c) =>
            /\ call'[c].ret.state = "rejected"
            /\ authProvider' = authProvider /\ requesterAuth' = requesterAuth

\* C23: loginWithJWT whose query returns no response rejects with the auth
\* exception and leaves the auth provider and the requester as they were; with
\* a response, the token is written to the storage first and only then are the
\* provider and the requester replaced by a JWT provider holding the returned
\* accessToken and validUntil; when the storage fails, they are not replaced.
C23_LoginStoresThenReplaces ==
    [][/\ C23_NoResponseThrows
       /\ C23_StoredBeforeReplaced
       /\ C23_FinishedFulfilledReplaces
       /\ C23_StorageFailureKeepsProvider]_vars

C23_Witness ==
    \E c, d \in Calls :
        /\ call[c].op = "loginWithJWT" /\ Done(c) /\ call[c].ret = Fulfilled("object")
        /\ StorageOf(c) = TokenInfo("t2", 3 * TickMs)
        /\ authProvider = CustomJwtAuthProviderHolding(TokenInfo("t2", 3 * TickMs))
        /\ requesterAuth = authProvider
        /\ call[d].op = "loginWithJWT" /\ Done(d) /\ call[d].ret = Rejected(StorageFailed)
        /\ call[d].input[1].accessToken = "t1" /\ call[d].input[2] = NoTokenInfo

-----------------------------------------------------------------------------
(* Rejections of a coordinator *)

\* C24: a rejection of a coordinator (timeout, subscription error, completion
\* without an awaited status) is delivered to the caller's promise, and no
\* promise the coordinator created, the one result.finally returns among them,
\* is left rejected without a handler.
C24_RejectionReachesCallerOnly ==
    /\ \A c \in Calls :
          Subscribed(c) /\ co[c].result.state = "rejected" /\ Done(c) => call[c].ret = co[c].result
    /\ \A u \in unhandled : u.src # "finally"

-----------------------------------------------------------------------------
(* Replacing the auth provider *)

ProviderReplaced == authProvider' # authProvider \/ requesterAuth' # requesterAuth

C25_ReplacementKeepsCache ==
    ProviderReplaced =>
        /\ nodeKeyCache' = nodeKeyCache
        /\ isWalletUnlocked(nodeKeyCache') = isWalletUnlocked(nodeKeyCache)

\* C25: a step that replaces the auth provider, by setAuthProvider or by
\* loginWithJWT, leaves the key cache as it is, so isWalletUnlocked() is the
\* same before and after it, whichever provider or account replaces which.
C25_SetAuthProviderKeepsKeyCache ==
    [][C25_ReplacementKeepsCache]_vars

C25_Witness ==
    \E c, d \in Calls :
        /\ call[c].op = "loginWithJWT" /\ Done(c) /\ call[c].ret.state = "fulfilled"
        /\ call[c].unlocked
        /\ call[d].op = "deployWallet" /\ call[d].unlocked
        /\ SentFor(d) # {} /\ (\A q \in SentFor(d) : q.authorized)
        /\ authProvider = AccountTokenAuthProvider
        /\ isWalletUnlocked(nodeKeyCache)

\* C26: in every state the provider isAuthorized() and requireValidAuth
\* consult is the provider the current Requester was built with, and every
\* request was sent with the authorization its call saw when it started,
\* however setAuthProvider, loginWithJWT and queries in flight interleave.
C26_ClientAndRequesterShareProvider ==
    /\ requesterAuth = authProvider
    /\ \A q \in wire : q.authorized = call[q.call].authorized

C26_Witness ==
    \E c, d \in Calls :
        /\ call[c].op = "loginWithJWT" /\ Done(c) /\ call[c].ret.state = "fulfilled"
        /\ ~call[c].authorized
        /\ call[d].op = "getCurrentWallet" /\ call[d].pc = "inflight" /\ call[d].authorized
        /\ SentFor(d) # {}
        /\ authProvider.kind = "stub" /\ requesterAuth.kind = "stub"

-----------------------------------------------------------------------------
(* Payments: payInvoice, sendPayment and their awaiting variants *)

PaymentsNext ==
    \/ \E c \in Calls : payInvoice(c)
    \/ \E c \in Calls : sendPayment(c)
    \/ \E c \in Calls, secs \in PaymentTimeoutChoices : payInvoiceAndAwaitResult(c, secs)
    \/ \E c \in Calls, secs \in PaymentTimeoutChoices : sendPaymentAndAwaitResult(c, secs)
    \/ \E key \in AwaitKeys : loadWalletSigningKey(key)
    \/ \E c \in Calls, r \in PaymentResponses : executeRawQueryReturns(c, r)
    \/ \E c \in Calls, r \in PaymentResponses : payInvoiceAndAwaitResultResumes(c, r)
    \/ \E c \in Calls, r \in PaymentResponses : sendPaymentAndAwaitResultResumes(c, r)
    \/ \E c \in Calls, s \in PushedPaymentStatuses : PushPaymentStatus(c, s)
    \/ \E c \in Calls : SubscriptionComplete(c)
    \/ \E c \in Calls : TimerFires(c)
    \/ Tick
    \/ \E c \in Calls : RunFinally(c)
    \/ \E c \in Calls : Deliver(c)

SpecPayments == Init /\ [][PaymentsNext]_vars

AllPaymentOps == PaymentOps \cup AwaitPaymentOps

C27_NeverNull ==
    \A c \in Calls :
        call[c].op \in AllPaymentOps /\ Done(c) =>
            \/ call[c].ret.state = "rejected"
            \/ call[c].ret.state = "fulfilled" /\ call[c].ret.status \in TransactionStatusValues

C27_SubscribedOnlyAfterMutation ==
    \A c \in Calls :
        /\ call[c].op \in PaymentOps => ~Subscribed(c)
        /\ call[c].pc \in {"idle", "inflight"} => ~Subscribed(c) /\ co[c] = NoCoordinator

C27_MutationReturns ==
    \A c \in Calls, r \in PaymentResponses :
        /\ executeRawQueryReturns(c, r) =>
              /\ r = "null" => call'[c].ret = Rejected(PaymentNull)
              /\ r \in QueryErrors => call'[c].ret.state = "rejected"
              /\ r \in TransactionStatusValues => call'[c].ret = Fulfilled(r)
        /\ (payInvoiceAndAwaitResultResumes(c, r) \/ sendPaymentAndAwaitResultResumes(c, r)) =>
              /\ r = "null" => call'[c].ret = Rejected(PaymentNull)
              /\ r \notin TransactionStatusValues =>
                    /\ call'[c].pc = "done" /\ call'[c].ret.state = "rejected"
                    /\ co'[c] = NoCoordinator
              /\ co'[c].subscribeCalls > 0 => r \in TransactionStatusValues \ completionStatuses

\* C27: payInvoice and sendPayment return a payment or reject, with
\* PaymentNullError when the mutation's result is null, never null; the
\* awaiting variants subscribe to the payment's status only once the mutation
\* has returned a payment, and not at all when it failed or returned null.
C27_PaymentNeverNull ==
    /\ [](C27_NeverNull /\ C27_SubscribedOnlyAfterMutation)
    /\ [][C27_MutationReturns]_vars

C27_Witness ==
    \E c, d \in Calls :
        /\ call[c].op = "sendPayment" /\ Done(c) /\ call[c].ret = Rejected(PaymentNull)
        /\ call[d].op = "payInvoiceAndAwaitResult" /\ Done(d) /\ call[d].ret = Rejected(PaymentNull)
        /\ ~Subscribed(d) /\ SentFor(d) # {}

-----------------------------------------------------------------------------
(* initializeWallet and the key cache *)

C28_KeyStaysCached ==
    \A c \in Calls :
        call[c].op = "initializeWallet" =>
            /\ isWalletUnlocked(nodeKeyCache)
            /\ call[c].handed = 1
            /\ \E q \in SentFor(c) : q.op = "initializeWallet"
            /\ \A q \in SentFor(c) : q.keyHeld /\ q.signingNodeId = WALLET_NODE_ID_KEY

C28_LoadsThenHandsOver ==
    \A c \in Calls, key \in SigningKeys :
        initializeWallet(c, key) =>
            /\ KeysFor(nodeKeyCache', WALLET_NODE_ID_KEY) = {key}
            /\ \A q \in wire' \ wire : q.call = c /\ q.keyHeld /\ q.signedWith = {key}
            /\ wire' # wire

C28_OutcomeKeepsKey ==
    \A c \in Calls, r \in PlainResponses :
        executeRawQueryReturns(c, r) /\ call[c].op = "initializeWallet" =>
            /\ nodeKeyCache' = nodeKeyCache
            /\ isWalletUnlocked(nodeKeyCache')

\* C28: initializeWallet loads the given key into the key cache before its
\* signed mutation is handed to the Requester, so the mutation is sent with
\* that key held; and whatever the mutation comes back with (a wallet, null or
\* a failure), the key stays in the cache and isWalletUnlocked() is true.
C28_InitializeWalletLoadsKeyFirst ==
    /\ []C28_KeyStaysCached
    /\ [][C28_LoadsThenHandsOver /\ C28_OutcomeKeepsKey]_vars

C28_Witness ==
    \E c, d \in Calls :
        /\ call[c].op = "initializeWallet" /\ ~call[c].unlocked
        /\ Done(c) /\ call[c].ret = Fulfilled("null")
        /\ call[d].op = "initializeWallet" /\ call[d].unlocked
        /\ Done(d) /\ call[d].ret = Rejected(Err("NetworkError", ""))
        /\ isWalletUnlocked(nodeKeyCache)

-----------------------------------------------------------------------------
(* The legacy client: unlockWallet's outcomes and payInvoice's guards *)

C29_NoKeyReturnsFalse ==
    \A c \in Calls :
        unlockWalletRecovered(c, "null") =>
            /\ call'[c].pc = "done" /\ call'[c].ret = Fulfilled("false")
            /\ nodeKeyCache' = nodeKeyCache /\ activeWalletId' = activeWalletId

C29_DecryptFailureThrows ==
    \A c \in Calls :
        unlockWalletDecryptFails(c) =>
            /\ call'[c].pc = "done" /\ call'[c].ret.state = "rejected"
            /\ nodeKeyCache' = nodeKeyCache /\ activeWalletId' = activeWalletId

C29_OnlySuccessLoads ==
    \A c \in Calls :
        call[c].op = "unlockWallet" /\ call'[c] # call[c] =>
            IF call'[c].ret = Fulfilled("true")
            THEN /\ call[c].pc = "decrypting"
                 /\ HasKey(nodeKeyCache', call[c].input[1])
                 /\ activeWalletId' = call[c].input[1]
                 /\ \A w \in WalletIds \ {call[c].input[1]} :
                       EntriesFor(nodeKeyCache', w) = EntriesFor(nodeKeyCache, w)
            ELSE nodeKeyCache' = nodeKeyCache /\ activeWalletId' = activeWalletId

C29_ChangedOnlyBySuccess ==
    (nodeKeyCache' # nodeKeyCache \/ activeWalletId' # activeWalletId) =>
        \E c \in Calls :
            call[c].op = "unlockWallet" /\ call[c].pc = "decrypting" /\ call'[c].ret = Fulfilled("true")

\* C29: unlockWallet of the legacy client returns false when the server has no
\* encrypted signing key for the node and throws when decryption yields
\* nothing, leaving the key cache and activeWalletId as they were in both
\* cases; only when decryption succeeds does it load the key under walletId,
\* set activeWalletId to walletId and return true.
C29_UnlockWalletOutcomes ==
    [][/\ C29_NoKeyReturnsFalse
       /\ C29_DecryptFailureThrows
       /\ C29_OnlySuccessLoads
       /\ C29_ChangedOnlyBySuccess]_vars

C29_Witness ==
    \E c, d \in Calls :
        /\ call[c].op = "unlockWallet" /\ Done(c) /\ call[c].ret = Fulfilled("false")
        /\ call[c].input = <<"w1">>
        /\ call[d].op = "unlockWallet" /\ Done(d) /\ call[d].ret = Rejected(DecryptFailed)
        /\ call[d].input = <<"w2">>
        /\ nodeKeyCache = {} /\ activeWalletId = "w1"

C30_GuardsBeforeRequest ==
    \A c \in Calls :
        payInvoiceLegacy(c) =>
            IF activeWalletId = ""
            THEN call'[c].ret = Rejected(NoActiveWallet) /\ wire' = wire
            ELSE IF ~HasKey(nodeKeyCache, activeWalletId)
            THEN call'[c].ret = Rejected(WalletNotUnlocked) /\ wire' = wire
            ELSE /\ call'[c].pc = "mutating"
                 /\ \E q \in wire' \ wire :
                       q.call = c /\ q.op = "PayInvoice" /\ q.signingNodeId = activeWalletId
                 /\ Cardinality(wire' \ wire) = 1

C30_SentForActiveUnlockedWallet ==
    \A q \in wire :
        q.op = "PayInvoice" =>
            /\ call[q.call].op = "payInvoiceLegacy"
            /\ q.signingNodeId # "" /\ q.signingNodeId = call[q.call].input[1]
            /\ q.keyHeld /\ call[q.call].unlocked

\* C30: payInvoice of the legacy client sends its PayInvoice mutation only when
\* activeWalletId is set and the key cache holds a key for it; otherwise it
\* throws "No active wallet" or "Wallet is not unlocked" and sends nothing.
\* The signing-node-id header of a sent request is the activeWalletId the call
\* read when it started, whatever activeWalletId becomes later.
C30_LegacyPayInvoiceGuarded ==
    /\ []C30_SentForActiveUnlockedWallet
    /\ [][C30_GuardsBeforeRequest]_vars

C30_Witness ==
    \E c, d \in Calls :
        /\ call[c].op = "unlockWallet" /\ Done(c) /\ call[c].ret = Fulfilled("true")
        /\ call[c].input[1] = "w2"
        /\ call[d].op = "payInvoiceLegacy" /\ Done(d) /\ call[d].ret = Rejected(Err("Error", "no route"))
        /\ call[d].input = <<"w2">>
        /\ \E q \in SentFor(d) : q.op = "PayInvoice" /\ q.signingNodeId = "w2" /\ q.keyHeld

====
